---- MODULE Spec2Model ----
(***************************************************************************)
(* DedupFS (src/dedupfs.py): a deduplicating FUSE file system.  The        *)
(* metadata store is an SQLite database (tables tree, inodes, links,       *)
(* hashes, "index"), the block store a dbm file keyed by digest.  The      *)
(* model keeps the tables as sets/functions, the path cache as a map from  *)
(* segment lists to (tree id, inode), and the buffer pool as a map from    *)
(* path to (bytes, dirty).  Every FUSE callback is one action; a garbage   *)
(* collection started from the callback's __gc_hook is the second step of  *)
(* that callback (pc names the callback until the collector is done).      *)
(*                                                                         *)
(* Paths are kept split into their segments ("/a/b" is <<"a","b">>, "/" is *)
(* <<>>), file types are the S_IFMT bits of the mode shifted right by 12.  *)
(*                                                                         *)
(* The connection is opened with isolation_level=None (line 653) and the   *)
(* code never issues BEGIN, so every statement is committed as it runs and *)
(* conn.commit()/conn.rollback() find no open transaction.                 *)
(*                                                                         *)
(* The op counter read by __gc_hook and the clock read by __gc_hook and    *)
(* __cache_check_gc are free in most specifications: opcount = -1 stands   *)
(* for a counter that is not followed, and whether the hook's condition    *)
(* holds in a call, and which cached nodes the sweep finds expired, are    *)
(* then inputs of the action (calls such as utime("/") advance the counter *)
(* and change nothing else).  SpecCount follows the counter, SpecCache the *)
(* clock and the stamps of the cached nodes.                               *)
(***************************************************************************)
EXTENDS Integers, Sequences, FiniteSets, TLC

VARIABLES
  tree,            \* rows [id, parent_id, name, inode]; parent_id 0 is NULL
  inodes,          \* inode -> [nlinks, mode, uid, size]
  links,           \* rows <<inode, target>>
  hashes,          \* rows [id, hash]
  index,           \* rows [inode, hash_id, block_nr]
  blocks,          \* digest -> compressed block (self.blocks)
  cached_nodes,    \* segment list -> <<tree id, inode>> (self.cached_nodes)
  buffers,         \* path -> [data, dirty] (self.buffers)
  block_size,      \* self.block_size
  compression_method, \* self.compression_method: the name of the method
  compressor,      \* the method whose pair is self.compress, self.decompress
  verify_writes,   \* self.verify_writes
  gc_enabled,      \* self.gc_enabled
  read_only,       \* self.read_only
  hash_function,   \* self.hash_function
  options,         \* the options table: [block_size, compression_method,
                   \* hash_function] as init_metastore saved them
  warnings,        \* the options fsinit logged an "Ignoring --..." warning for
  cache_clock,     \* [last_used, now, requests, last_run]: the last-used time of
                   \* each cached node, time.time(), self.cache_requests and
                   \* self.cache_gc_last_run; followed in SpecCache only
  opcount,         \* self.opcount; -1 where the specification leaves the counter
                   \* free (calls outside the model advance it)
  txn,             \* the open transaction of the connection: [open, tables],
                   \* tables being the tables as they were when it began
  pc,              \* the callback that is inside __collect_garbage, Idle, or
                   \* Stopped when no process has the store mounted
  ret              \* [status, gc] of the last callback: what it returned, and
                   \* whether its __gc_hook called __collect_garbage

vars == <<tree, inodes, links, hashes, index, blocks, cached_nodes, buffers,
          block_size, compression_method, compressor, verify_writes,
          gc_enabled, read_only, hash_function, options, warnings, cache_clock, opcount, txn, pc, ret>>

opts == <<block_size, compression_method, compressor, verify_writes, gc_enabled,
          read_only, hash_function, options, warnings, cache_clock>>

----------------------------------------------------------------------------
(* Bounds of the model. *)

MaxTreeId == 4      \* largest tree.id the model allocates
MaxInode == 4       \* largest inodes.inode the model allocates
MaxLen == 2         \* longest Buffer, in bytes
MaxBlockSize == 2   \* block sizes 1..MaxBlockSize
MaxNlinks == 5      \* nlinks stays within -1..MaxNlinks

(* File types: stat.S_IF* >> 12. *)
S_IFDIR == 4
S_IFBLK == 6
S_IFREG == 8
S_IFLNK == 10

DirSize == 4096

\* __gc_hook looks at the clock on every GcEvery-th call
GcEvery == 500

\* self.cache_timeout, in seconds
CacheTimeout == 60

\* __cache_check_gc looks at the clock on every CacheGcEvery-th request
CacheGcEvery == 2500

None == <<>>

Byte == {0, 1}      \* 0 is the NUL byte cStringIO pads with

----------------------------------------------------------------------------
(* Helpers. *)

Max(S) == CHOOSE x \in S : \A y \in S : y <= x

Front(p) == SubSeq(p, 1, Len(p) - 1)

Last(p) == p[Len(p)]

IsPrefix(k, p) == Len(k) <= Len(p) /\ SubSeq(p, 1, Len(k)) = k

\* mode & bit, for a one-bit mask
HasBit(mode, bit) == (mode \div bit) % 2 = 1

\* rowid of a row inserted into a table with INTEGER PRIMARY KEY: max + 1
NewRowId(ids) == IF ids = {} THEN 1 ELSE Max(ids) + 1

Ceil(a, b) == (a + b - 1) \div b

\* a hashlib digest of a block: collision free on the blocks of the model
RECURSIVE hexdigest(_)
hexdigest(data) == IF data = <<>> THEN 1 ELSE 2 + data[1] + 3 * hexdigest(Tail(data))

\* __hash: sha1 and md5 give different digests of the same block and do not
\* collide on the blocks of the model; "constant" is a hasher whose digests
\* all collide
hash(data) ==
  IF hash_function = "constant" THEN 0
  ELSE IF hash_function = "md5" THEN 100 + hexdigest(data)
  ELSE hexdigest(data)

compress(data) == IF compressor = "none" THEN data ELSE <<Len(data)>> \o data

decompress(data) == IF compressor = "none" THEN data ELSE Tail(data)

\* cStringIO: seek(offset); write(data) -- a gap is filled with NUL bytes
RECURSIVE Nuls(_)
Nuls(n) == IF n <= 0 THEN <<>> ELSE <<0>> \o Nuls(n - 1)

buf_write(old, offset, data) ==
  LET head == IF offset <= Len(old) THEN SubSeq(old, 1, offset)
              ELSE old \o Nuls(offset - Len(old))
      rest == IF offset + Len(data) < Len(old)
              THEN SubSeq(old, offset + Len(data) + 1, Len(old)) ELSE <<>>
  IN  head \o data \o rest

\* cStringIO: seek(offset); read(length)
buf_read(old, offset, length) ==
  IF offset >= Len(old) THEN <<>>
  ELSE SubSeq(old, offset + 1, IF offset + length < Len(old) THEN offset + length ELSE Len(old))

----------------------------------------------------------------------------
(* The path cache. *)

\* __cache_do_gc: the nodes of expired are deleted with their subtrees
cache_do_gc(cache, expired) ==
  [p \in {q \in DOMAIN cache : ~ \E k \in expired : IsPrefix(k, q)} |-> cache[p]]

\* a __cache_set that leaves the keys of a deleted path in the cache
cache_set_keep(cache, key, value) ==
  IF value = None \/ \E i \in 1..(Len(key) - 1) : SubSeq(key, 1, i) \notin DOMAIN cache
  THEN cache
  ELSE [p \in DOMAIN cache \cup {key} |-> IF p = key THEN value ELSE cache[p]]

cache_set(cache, key, value) ==
  IF \E i \in 1..(Len(key) - 1) : SubSeq(key, 1, i) \notin DOMAIN cache
  THEN cache
  ELSE IF value = None
  THEN cache_do_gc(cache, {key})
  ELSE [p \in DOMAIN cache \cup {key} |-> IF p = key THEN value ELSE cache[p]]

\* the walk of __path2keys from segment i + 1 on; keys are those of the prefix
RECURSIVE path2keys_walk(_, _, _, _, _)
path2keys_walk(tr, cache, path, i, keys) ==
  IF i = Len(path) THEN [exc |-> "none", keys |-> keys, cache |-> cache]
  ELSE LET prefix == SubSeq(path, 1, i + 1) IN
       IF prefix \in DOMAIN cache
       THEN path2keys_walk(tr, cache, path, i + 1, cache[prefix])
       ELSE LET rows == {r \in tr : r.parent_id = keys[1] /\ r.name = path[i + 1]} IN
            IF rows = {}
            THEN [exc |-> "ENOENT", keys |-> keys, cache |-> cache]
            ELSE LET r == CHOOSE r \in rows : TRUE
                     value == <<r.id, r.inode>>
                 IN  path2keys_walk(tr, [p \in DOMAIN cache \cup {prefix} |->
                                           IF p = prefix THEN value ELSE cache[p]],
                                    path, i + 1, value)

path2keys(tr, cache, path) == path2keys_walk(tr, cache, path, 0, <<1, 1>>)

\* a walk that stamps the node of the path and none of its ancestors
touch_leaf(c, cache, path) ==
  [c EXCEPT !.last_used = [q \in DOMAIN cache |->
                             IF q = path \/ q \notin DOMAIN c.last_used THEN c.now
                             ELSE c.last_used[q]]]

\* the last-used times after the walk of __path2keys(path) that left cache:
\* every cached segment it passed and every node it created has time_now
touch(c, cache, path) ==
  [c EXCEPT !.last_used = [q \in DOMAIN cache |->
                             IF IsPrefix(q, path) THEN c.now ELSE c.last_used[q]]]

\* __cache_check_gc with the sweep of __cache_do_gc: a node goes when it, or a
\* node above it, was last used more than cache_timeout ago
cache_check_gc(c, cache) ==
  LET counted == c.requests + 1 >= CacheGcEvery
      sweep == counted /\ c.now - c.last_run >= CacheTimeout
      kept == IF sweep
              THEN cache_do_gc(cache, {q \in DOMAIN cache :
                                         c.now - c.last_used[q] > CacheTimeout})
              ELSE cache
  IN  [cache |-> kept,
       clock |-> [last_used |-> [q \in DOMAIN kept |-> c.last_used[q]],
                  now |-> c.now,
                  requests |-> IF counted THEN 0 ELSE c.requests + 1,
                  last_run |-> IF sweep THEN c.now ELSE c.last_run]]

----------------------------------------------------------------------------
(* The state the handlers thread through their statements. *)

State == [tree |-> tree, inodes |-> inodes, links |-> links, hashes |-> hashes,
          index |-> index, blocks |-> blocks, cached_nodes |-> cached_nodes,
          buffers |-> buffers, txn |-> txn]

\* no transaction is open
NoTxn == [open |-> FALSE, tables |-> <<>>]

\* a connection that opens a transaction before the first change, as
\* sqlite3 does when isolation_level is left at its default
begin_deferred(snapshot) == [open |-> TRUE, tables |-> snapshot]

\* sqlite3.connect(..., isolation_level=None): the module never issues BEGIN,
\* and neither does the code, so a statement that changes a table is
\* committed as it runs and no transaction is open after it
begin(snapshot) == NoTxn

\* conn.execute of the statements that took the tables from those of s0 to
\* those of s
execute(s0, s) ==
  LET TablesOf(x) == <<x.tree, x.inodes, x.links, x.hashes, x.index>> IN
  IF s0.txn.open \/ TablesOf(s) = TablesOf(s0) THEN s
  ELSE [s EXCEPT !.txn = begin(TablesOf(s0))]

\* __commit_changes() with use_transactions (the default) and nested = False
commit_changes(s) == [s EXCEPT !.txn = NoTxn]

\* __rollback_changes() with use_transactions and nested = False
rollback_changes(s) ==
  IF ~ s.txn.open THEN s
  ELSE [s EXCEPT !.tree = s.txn.tables[1], !.inodes = s.txn.tables[2],
                 !.links = s.txn.tables[3], !.hashes = s.txn.tables[4],
                 !.index = s.txn.tables[5], !.txn = NoTxn]

\* what the callback op does with the connection: "return", on its way out
\* with status when __gc_hook did not call the collector (hook: it reached
\* __gc_hook); "hook", before a __gc_hook that calls the collector;
\* "collected", after the collector raised exc or returned ("none")
end_of_call(op, status, hook, phase, exc) ==
  IF op \in {"create", "mkdir", "mknod", "symlink", "link", "unlink", "rmdir", "rename"}
  THEN IF phase = "collected" THEN (IF exc = "none" THEN "none" ELSE "rollback")
       ELSE IF status \in {"ok", "EACCES"} THEN "commit"
       ELSE IF status = "EROFS" THEN "none" ELSE "rollback"
  ELSE IF op = "truncate"
  THEN IF phase = "hook" THEN "none"
       ELSE IF phase = "collected" THEN (IF exc = "none" THEN "commit" ELSE "rollback")
       ELSE IF status = "ok" THEN "commit" ELSE "rollback"
  ELSE IF op = "release"
  THEN IF phase = "collected" THEN "none"
       ELSE IF hook THEN "commit"
       ELSE IF status \in {"EIO", "exit"} THEN "rollback" ELSE "none"
  ELSE "none"

\* the state s a callback leaves after starting in s0 and ending with how
finish(s0, s, how) ==
  IF how = "commit" THEN commit_changes(execute(s0, s))
  ELSE IF how = "rollback" THEN rollback_changes(execute(s0, s))
  ELSE execute(s0, s)

\* UPDATE inodes SET nlinks = nlinks + d WHERE inode = ?
add_nlinks(ino, inode, d) ==
  [i \in DOMAIN ino |-> IF i = inode THEN [ino[i] EXCEPT !.nlinks = @ + d] ELSE ino[i]]

\* UPDATE inodes SET size = ? WHERE inode = ?
set_size(ino, inode, size) ==
  [i \in DOMAIN ino |-> IF i = inode THEN [ino[i] EXCEPT !.size = size] ELSE ino[i]]

\* an index that lets every row in
tree_parents_names_off(tr, parent_id, name) == FALSE

\* CREATE UNIQUE INDEX tree_parents_names ON tree (parent_id, name): the
\* INSERT of a row with this parent and name raises IntegrityError
tree_parents_names(tr, parent_id, name) ==
  \E r \in tr : r.parent_id = parent_id /\ r.name = name

insert(s, path, mode, size) ==
  LET k == path2keys(s.tree, s.cached_nodes, Front(path))
      s1 == [s EXCEPT !.cached_nodes = k.cache]
  IN  IF k.exc # "none" THEN [s |-> s1, exc |-> k.exc, inode |-> 0, parent_inode |-> 0]
      ELSE
      LET nlinks == IF HasBit(mode, S_IFDIR) THEN 2 ELSE 1
          inode == NewRowId(DOMAIN s.inodes)
          s2 == [s1 EXCEPT !.inodes = [i \in DOMAIN @ \cup {inode} |->
                    IF i = inode THEN [nlinks |-> nlinks, mode |-> mode, uid |-> 0, size |-> size]
                    ELSE @[i]]]
          node_id == NewRowId({r.id : r \in s.tree})
      IN  IF tree_parents_names(s.tree, k.keys[1], Last(path))
          THEN [s |-> s2, exc |-> "IntegrityError", inode |-> 0, parent_inode |-> 0]
          ELSE [s |-> [s2 EXCEPT
                         !.tree = @ \cup {[id |-> node_id, parent_id |-> k.keys[1],
                                           name |-> Last(path), inode |-> inode]},
                         !.cached_nodes = cache_set(@, path, <<node_id, inode>>)],
                exc |-> "none", inode |-> inode, parent_inode |-> k.keys[2]]

\* a removal that never looks for children
remove_unchecked(s, path, check_empty) ==
  LET k == path2keys(s.tree, s.cached_nodes, path)
      s1 == [s EXCEPT !.cached_nodes = k.cache]
  IN  IF k.exc # "none" THEN [s |-> s1, exc |-> k.exc]
      ELSE [s |-> [s1 EXCEPT
                     !.cached_nodes = cache_set(@, path, None),
                     !.tree = {r \in @ : r.id # k.keys[1]},
                     !.inodes = add_nlinks(@, k.keys[2], -1)],
            exc |-> "none"]

remove(s, path, check_empty) ==
  LET k == path2keys(s.tree, s.cached_nodes, path)
      s1 == [s EXCEPT !.cached_nodes = k.cache]
  IN  IF k.exc # "none" THEN [s |-> s1, exc |-> k.exc]
      ELSE IF check_empty /\ \E r \in s.tree : r.parent_id = k.keys[1]
      THEN [s |-> s1, exc |-> "ENOTEMPTY"]
      ELSE [s |-> [s1 EXCEPT
                     !.cached_nodes = cache_set(@, path, None),
                     !.tree = {r \in @ : r.id # k.keys[1]},
                     !.inodes = add_nlinks(@, k.keys[2], -1)],
            exc |-> "none"]

\* the numeric status __except_to_status gives: an OSError keeps its errno,
\* anything else gets the callback's default code
OSErrors == {"ENOENT", "ENOTEMPTY"}

except_to_status(exc, code) == IF exc \in OSErrors THEN exc ELSE code

\* the default code of each callback's except clause
default_code(op) ==
  IF op \in {"rename", "rmdir", "truncate", "unlink", "utime", "getattr"}
  THEN "ENOENT" ELSE "EIO"

\* open(path, flags, nested=True): resolves the path and checks the permission
\* bits of the inode row; allowed is the outcome of that check for the caller
open_call(s, path, inode, allowed) ==
  LET k == IF inode # 0 THEN [exc |-> "none", keys |-> <<0, inode>>, cache |-> s.cached_nodes]
           ELSE path2keys(s.tree, s.cached_nodes, path)
      s1 == [s EXCEPT !.cached_nodes = k.cache]
  IN  IF k.exc # "none" THEN [s |-> s1, exc |-> k.exc, status |-> "none"]
      ELSE IF k.keys[2] \notin DOMAIN s.inodes
      THEN [s |-> s1, exc |-> "TypeError", status |-> "none"]
      ELSE [s |-> s1, exc |-> "none", status |-> IF allowed THEN "ok" ELSE "EACCES"]

create_call(s, path, mode, allowed) ==
  LET o == open_call(s, path, 0, allowed) IN
  IF o.exc = "none" THEN [s |-> o.s, status |-> o.status, hook |-> TRUE]
  ELSE IF o.exc # "ENOENT"
  THEN [s |-> o.s, status |-> except_to_status(o.exc, "EIO"), hook |-> FALSE]
  ELSE LET n == insert(o.s, path, mode, 0) IN
       IF n.exc # "none"
       THEN [s |-> n.s, status |-> except_to_status(n.exc, "EIO"), hook |-> FALSE]
       ELSE LET o2 == open_call(n.s, path, n.inode, allowed) IN
            [s |-> o2.s, status |-> o2.status, hook |-> TRUE]

mkdir_call(s, path) ==
  LET n == insert(s, path, S_IFDIR, DirSize) IN
  IF n.exc # "none"
  THEN [s |-> n.s, status |-> except_to_status(n.exc, "EIO"), hook |-> FALSE]
  ELSE [s |-> [n.s EXCEPT !.inodes = add_nlinks(@, n.parent_inode, 1)],
        status |-> "ok", hook |-> TRUE]

mknod_call(s, path, mode) ==
  LET n == insert(s, path, mode, 0) IN
  IF n.exc # "none"
  THEN [s |-> n.s, status |-> except_to_status(n.exc, "EIO"), hook |-> FALSE]
  ELSE [s |-> n.s, status |-> "ok", hook |-> TRUE]

symlink_call(s, target_path, link_path) ==
  LET n == insert(s, link_path, S_IFLNK, Len(target_path)) IN
  IF n.exc # "none"
  THEN [s |-> n.s, status |-> except_to_status(n.exc, "EIO"), hook |-> FALSE]
  ELSE IF <<n.inode, target_path>> \in s.links
  THEN [s |-> n.s, status |-> "EIO", hook |-> FALSE]
  ELSE [s |-> [n.s EXCEPT !.links = @ \cup {<<n.inode, target_path>>}],
        status |-> "ok", hook |-> TRUE]

\* link(target_path, link_path, nested): exc is what a nested call re-raises
link_call(s, target_path, link_path) ==
  LET t == path2keys(s.tree, s.cached_nodes, target_path)
      s1 == [s EXCEPT !.cached_nodes = t.cache]
      p == path2keys(s1.tree, s1.cached_nodes, Front(link_path))
      s2 == [s1 EXCEPT !.cached_nodes = p.cache]
      node_id == NewRowId({r.id : r \in s.tree})
  IN  IF t.exc # "none" THEN [s |-> s1, exc |-> t.exc]
      ELSE IF p.exc # "none" THEN [s |-> s2, exc |-> p.exc]
      ELSE IF tree_parents_names(s.tree, p.keys[1], Last(link_path))
      THEN [s |-> s2, exc |-> "IntegrityError"]
      ELSE [s |-> [s2 EXCEPT
                     !.tree = @ \cup {[id |-> node_id, parent_id |-> p.keys[1],
                                       name |-> Last(link_path), inode |-> t.keys[2]]},
                     !.inodes = add_nlinks(@, t.keys[2], 1),
                     !.cached_nodes = cache_set(@, link_path, <<node_id, t.keys[2]>>)],
            exc |-> "none"]

\* unlink(path, nested)
unlink_call(s, path) == remove(s, path, FALSE)

rename_call(s, old_path, new_path) ==
  LET u == unlink_call(s, new_path) IN
  IF u.exc \notin {"none", "ENOENT"}
  THEN [s |-> u.s, status |-> except_to_status(u.exc, "ENOENT"), hook |-> FALSE]
  ELSE LET l == link_call(u.s, old_path, new_path) IN
       IF l.exc # "none"
       THEN [s |-> l.s, status |-> except_to_status(l.exc, "ENOENT"), hook |-> FALSE]
       ELSE LET v == unlink_call(l.s, old_path) IN
            IF v.exc # "none"
            THEN [s |-> v.s, status |-> except_to_status(v.exc, "ENOENT"), hook |-> FALSE]
            ELSE [s |-> v.s, status |-> "ok", hook |-> TRUE]

rmdir_call(s, path) ==
  LET r == remove(s, path, TRUE) IN
  IF r.exc # "none"
  THEN [s |-> r.s, status |-> except_to_status(r.exc, "ENOENT"), hook |-> FALSE]
  ELSE LET p == path2keys(r.s.tree, r.s.cached_nodes, Front(path)) IN
       IF p.exc # "none"
       THEN [s |-> [r.s EXCEPT !.cached_nodes = p.cache],
             status |-> except_to_status(p.exc, "ENOENT"), hook |-> FALSE]
       ELSE [s |-> [r.s EXCEPT !.cached_nodes = p.cache,
                               !.inodes = add_nlinks(@, p.keys[2], -1)],
             status |-> "ok", hook |-> FALSE]

getattr_call(s, path) ==
  LET k == path2keys(s.tree, s.cached_nodes, path)
      s1 == [s EXCEPT !.cached_nodes = k.cache]
  IN  IF k.exc # "none" THEN [s |-> s1, status |-> "ENOENT", val |-> None]
      ELSE IF k.keys[2] \notin DOMAIN s.inodes
      THEN [s |-> s1, status |-> "ENOENT", val |-> None]
      ELSE [s |-> s1, status |-> "ok", val |-> s.inodes[k.keys[2]]]

\* readlink(path): SELECT target FROM links WHERE inode = ? has no ORDER BY,
\* so fetchone() may hand back any of the inode's rows (vals); with no row
\* fetchone() is None and the subscript raises TypeError
readlink_call(s, path) ==
  LET k == path2keys(s.tree, s.cached_nodes, path)
      s1 == [s EXCEPT !.cached_nodes = k.cache]
  IN  IF k.exc # "none"
      THEN [s |-> s1, status |-> except_to_status(k.exc, "ENOENT"), vals |-> {}]
      ELSE LET rows == {l \in s.links : l[1] = k.keys[2]} IN
           IF rows = {}
           THEN [s |-> s1, status |-> except_to_status("TypeError", "ENOENT"), vals |-> {}]
           ELSE [s |-> s1, status |-> "ok", vals |-> {l[2] : l \in rows}]

\* __access(inode, flags): flags is the set of the bits R_OK, W_OK, X_OK asked
\* for; allowed is the outcome of the permission-bit expression for the caller
access_permitted(s, inode, flags, allowed) ==
  IF read_only /\ "W" \in flags THEN [exc |-> "none", val |-> FALSE]
  ELSE IF inode \notin DOMAIN s.inodes THEN [exc |-> "TypeError", val |-> FALSE]
  ELSE [exc |-> "none", val |-> allowed]

\* access(path, flags); os.F_OK is the empty set of bits
access_call(s, path, flags, allowed) ==
  LET k == path2keys(s.tree, s.cached_nodes, path)
      s1 == [s EXCEPT !.cached_nodes = k.cache]
      a == access_permitted(s, k.keys[2], flags, allowed)
  IN  IF k.exc # "none" THEN [s |-> s1, status |-> except_to_status(k.exc, "ENOENT")]
      ELSE IF flags = {} THEN [s |-> s1, status |-> "ok"]
      ELSE IF a.exc # "none" THEN [s |-> s1, status |-> except_to_status(a.exc, "ENOENT")]
      ELSE [s |-> s1, status |-> IF a.val THEN "ok" ELSE "EACCES"]

\* UPDATE inodes SET uid = ? WHERE inode = ?
set_uid(ino, inode, uid) ==
  [i \in DOMAIN ino |-> IF i = inode THEN [ino[i] EXCEPT !.uid = uid] ELSE ino[i]]

\* chown(path, uid, gid), past the read_only test and up to __gc_hook
chown_call(s, path, uid) ==
  LET k == path2keys(s.tree, s.cached_nodes, path)
      s1 == [s EXCEPT !.cached_nodes = k.cache]
  IN  IF k.exc # "none"
      THEN [s |-> s1, status |-> except_to_status(k.exc, "EIO"), hook |-> FALSE]
      ELSE [s |-> [s1 EXCEPT !.inodes = set_uid(@, k.keys[2], uid)],
            status |-> "ok", hook |-> TRUE]

----------------------------------------------------------------------------
(* Data: the buffer pool and the flush. *)

\* SELECT h.hash FROM hashes h, "index" i WHERE i.inode = ? AND h.id = i.hash_id
index_rows(s, inode) ==
  {[block_nr |-> x.block_nr, hash |-> h.hash] :
     <<x, h>> \in {z \in {y \in s.index : y.inode = inode} \X s.hashes : z[2].id = z[1].hash_id}}

\* ORDER BY i.block_nr ASC, each block fetched and decompressed in turn
RECURSIVE read_blocks(_, _)
read_blocks(blks, rows) ==
  IF rows = {} THEN [exc |-> "none", data |-> <<>>]
  ELSE LET r == CHOOSE x \in rows : \A y \in rows : x.block_nr <= y.block_nr IN
       IF r.hash \notin DOMAIN blks THEN [exc |-> "KeyError", data |-> <<>>]
       ELSE LET rest == read_blocks(blks, rows \ {r}) IN
            [exc |-> rest.exc, data |-> decompress(blks[r.hash]) \o rest.data]

get_file_buffer(s, path) ==
  IF path \in DOMAIN s.buffers THEN [s |-> s, exc |-> "none"]
  ELSE LET k == path2keys(s.tree, s.cached_nodes, path)
           s1 == [s EXCEPT !.cached_nodes = k.cache]
       IN  IF k.exc # "none" THEN [s |-> s1, exc |-> k.exc]
           ELSE LET rows == index_rows(s, k.keys[2])
                    b == read_blocks(s.blocks, rows)
                IN  IF b.exc # "none" THEN [s |-> s1, exc |-> b.exc]
                    ELSE [s |-> [s1 EXCEPT !.buffers =
                                   [q \in DOMAIN @ \cup {path} |->
                                      IF q = path
                                      THEN [data |-> b.data, dirty |-> rows # {}]
                                      ELSE @[q]]],
                          exc |-> "none"]

read_call(s, path, length, offset) ==
  LET g == get_file_buffer(s, path) IN
  IF g.exc # "none"
  THEN [s |-> g.s, status |-> except_to_status(g.exc, "EIO"), val |-> None]
  ELSE [s |-> g.s, status |-> "ok",
        val |-> buf_read(g.s.buffers[path].data, offset, length)]

write_call(s, path, data, offset) ==
  LET g == get_file_buffer(s, path) IN
  IF g.exc # "none"
  THEN [s |-> g.s, status |-> except_to_status(g.exc, "EIO")]
  ELSE [s |-> [g.s EXCEPT !.buffers[path] =
                 [data |-> buf_write(@.data, offset, data), dirty |-> TRUE]],
        status |-> "ok"]

\* a put that loses the block
put_block_lost(blks, digest, value) == blks

\* self.blocks[digest] = value
put_block(blks, digest, value) ==
  [d \in DOMAIN blks \cup {digest} |-> IF d = digest THEN value ELSE blks[d]]

\* a flush that never finds the digest it looks up
select_hash_never(rows, digest) == {}

\* SELECT id FROM hashes WHERE hash = ?
select_hash(rows, digest) == {h \in rows : h.hash = digest}

\* blocks block_nr, block_nr + 1, ... of __write_blocks' loop
RECURSIVE write_blocks_from(_, _, _, _)
write_blocks_from(s, inode, data, block_nr) ==
  IF block_nr >= Ceil(Len(data), block_size) THEN [s |-> s, exc |-> "none"]
  ELSE
  LET new_block == buf_read(data, block_size * block_nr, block_size)
      digest == hash(new_block)
      row == select_hash(s.hashes, digest)
  IN  IF row # {}
      THEN LET hash_id == (CHOOSE h \in row : TRUE).id IN
           IF digest \notin DOMAIN s.blocks THEN [s |-> s, exc |-> "KeyError"]
           ELSE IF new_block # decompress(s.blocks[digest])
           THEN [s |-> s, exc |-> "SystemExit"]
           ELSE write_blocks_from(
                  [s EXCEPT !.index = @ \cup {[inode |-> inode, hash_id |-> hash_id,
                                               block_nr |-> block_nr]}],
                  inode, data, block_nr + 1)
      ELSE LET hash_id == NewRowId({h.id : h \in s.hashes})
               s1 == [s EXCEPT
                        !.blocks = put_block(@, digest, compress(new_block)),
                        !.hashes = @ \cup {[id |-> hash_id, hash |-> digest]},
                        !.index = @ \cup {[inode |-> inode, hash_id |-> hash_id,
                                           block_nr |-> block_nr]}]
           IN  \* __verify_write selects from a table blocks the schema lacks
               IF verify_writes THEN [s |-> s1, exc |-> "OperationalError"]
               ELSE write_blocks_from(s1, inode, data, block_nr + 1)

\* On a read-only mount the metadata file is not writable (__check_data_file)
\* and SQLite refuses the first statement, the DELETE.
write_blocks(s, inode, data) ==
  IF read_only THEN [s |-> s, exc |-> "OperationalError"]
  ELSE
  LET w == write_blocks_from([s EXCEPT !.index = {x \in @ : x.inode # inode}],
                             inode, data, 0)
  IN  IF w.exc # "none" THEN w
      ELSE [s |-> [w.s EXCEPT !.inodes = set_size(@, inode, Len(data))], exc |-> "none"]

\* drop: the Buffer is closed and deleted once __gc_hook has returned.
\* sys.exit(1) raises SystemExit, which "except Exception" does not catch:
\* the status "exit" stands for the end of the process.
release_call(s, path) ==
  IF path \notin DOMAIN s.buffers
  THEN [s |-> s, status |-> "ok", hook |-> FALSE, drop |-> FALSE]
  ELSE IF ~ s.buffers[path].dirty
  THEN [s |-> s, status |-> "ok", hook |-> FALSE, drop |-> TRUE]
  ELSE LET k == path2keys(s.tree, s.cached_nodes, path)
           s1 == [s EXCEPT !.cached_nodes = k.cache]
       IN  IF k.exc # "none"
           THEN [s |-> s1, status |-> except_to_status(k.exc, "EIO"),
                 hook |-> FALSE, drop |-> FALSE]
           ELSE LET w == write_blocks(s1, k.keys[2], s.buffers[path].data) IN
                IF w.exc # "none"
                THEN [s |-> w.s,
                      status |-> IF w.exc = "SystemExit" THEN "exit"
                                 ELSE except_to_status(w.exc, "EIO"),
                      hook |-> FALSE, drop |-> FALSE]
                ELSE [s |-> w.s, status |-> "ok", hook |-> TRUE, drop |-> TRUE]

truncate_call(s, path, size) ==
  LET k == path2keys(s.tree, s.cached_nodes, path)
      s1 == [s EXCEPT !.cached_nodes = k.cache]
      last_block == size \div block_size
  IN  IF k.exc # "none"
      THEN [s |-> s1, status |-> except_to_status(k.exc, "ENOENT"), hook |-> FALSE]
      ELSE [s |-> [s1 EXCEPT
                     !.index = {x \in @ : ~ (x.inode = k.keys[2] /\ x.block_nr > last_block)},
                     !.inodes = set_size(@, k.keys[2], size)],
            status |-> "ok", hook |-> TRUE]

\* del self.buffers[path]
drop_buffer(bufs, path) == [q \in DOMAIN bufs \ {path} |-> bufs[q]]

----------------------------------------------------------------------------
(* The garbage collector. *)

\* a collector that also takes the inodes with one link left
collect_garbage_eager(s) ==
  LET live == {i \in DOMAIN s.inodes : s.inodes[i].nlinks > 1} IN
  [s |-> [s EXCEPT !.inodes = [i \in live |-> @[i]],
                   !.index = {x \in @ : x.inode \in live}],
   exc |-> "AttributeError"]

\* a collector that runs whatever the mount options say
collect_garbage_ungated(s) ==
  LET live == {i \in DOMAIN s.inodes : s.inodes[i].nlinks # 0} IN
  [s |-> [s EXCEPT !.inodes = [i \in live |-> @[i]],
                   !.index = {x \in @ : x.inode \in live}],
   exc |-> "AttributeError"]

\* The three sweeps of __collect_garbage.  The third one starts with
\* self.execute(...): DedupFS has no attribute execute, so the call raises
\* AttributeError before any block or hashes row is deleted.
collect_garbage(s) ==
  IF gc_enabled /\ ~ read_only
  THEN LET live == {i \in DOMAIN s.inodes : s.inodes[i].nlinks # 0} IN
       [s |-> [s EXCEPT !.inodes = [i \in live |-> @[i]],
                        !.index = {x \in @ : x.inode \in live}],
        exc |-> "AttributeError"]
  ELSE [s |-> s, exc |-> "none"]

----------------------------------------------------------------------------
(* The callbacks.  due: the condition of __gc_hook holds in this call (the   *)
(* counter reaches a multiple of 500 and gc_interval has elapsed).  expired: *)
(* the cached nodes the sweep of the call's last __cache_check_gc deletes.   *)

\* the condition of __gc_hook after it has counted the call: the counter is
\* a multiple of GcEvery and, elapsed, gc_interval has passed on the clock
gc_due(elapsed) == elapsed /\ (opcount < 0 \/ (opcount + 1) % GcEvery = 0)

Bounded(s) ==
  /\ \A r \in s.tree : r.id <= MaxTreeId
  /\ \A i \in DOMAIN s.inodes : i <= MaxInode /\ s.inodes[i].nlinks \in -1..MaxNlinks
  /\ \A q \in DOMAIN s.buffers : Len(s.buffers[q].data) <= MaxLen

Idle == [op |-> "none", path |-> <<>>]

\* no process has the store mounted: after fsdestroy or sys.exit
Stopped == [op |-> "stopped", path |-> <<>>]

\* the nodes a sweep may find expired: those the call itself did not stamp
Expirable(paths) ==
  SUBSET {q \in DOMAIN cached_nodes : \A p \in paths : ~ IsPrefix(q, p)}

Store(s) ==
  /\ tree' = s.tree
  /\ inodes' = s.inodes
  /\ links' = s.links
  /\ hashes' = s.hashes
  /\ index' = s.index
  /\ blocks' = s.blocks
  /\ cached_nodes' = s.cached_nodes
  /\ buffers' = s.buffers
  /\ txn' = s.txn
  /\ UNCHANGED opts

\* the end of a callback: the sweep (when the call consulted the cache), then
\* either the return or, from __gc_hook, the garbage collector
Return(op, path, s, status, hook, checked, due, expired) ==
  LET swept == IF checked THEN [s EXCEPT !.cached_nodes = cache_do_gc(@, expired)] ELSE s
      done == finish(State, swept,
                     end_of_call(op, status, hook,
                                 IF hook /\ gc_due(due) THEN "hook" ELSE "return", "none"))
  IN
  /\ pc = Idle
  /\ ~ checked => expired = {}
  /\ ~ hook => ~ due
  /\ Bounded(done)
  /\ Store(done)
  /\ pc' = IF status = "exit" THEN Stopped
           ELSE IF hook /\ gc_due(due) THEN [op |-> op, path |-> path] ELSE Idle
  /\ opcount' = IF hook /\ opcount >= 0 THEN opcount + 1 ELSE opcount
  /\ ret' = [status |-> status, gc |-> FALSE]

EROFS(op, path) ==
  /\ pc = Idle
  /\ read_only
  /\ ret' = [status |-> "EROFS", gc |-> FALSE]
  /\ UNCHANGED <<tree, inodes, links, hashes, index, blocks, cached_nodes, buffers, opts,
                 opcount, txn, pc>>

getattr(path, expired) ==
  LET h == getattr_call(State, path) IN
  Return("getattr", path, h.s, h.status, FALSE, path # <<>>, FALSE, expired)

readlink(path, expired) ==
  LET h == readlink_call(State, path) IN
  Return("readlink", path, h.s, h.status, FALSE, path # <<>>, FALSE, expired)

access(path, flags, allowed, expired) ==
  LET h == access_call(State, path, flags, allowed) IN
  Return("access", path, h.s, h.status, FALSE, path # <<>>, FALSE, expired)

create(path, mode, allowed, due, expired) ==
  \/ EROFS("create", path)
  \/ /\ ~ read_only
     /\ LET h == create_call(State, path, mode, allowed) IN
        Return("create", path, h.s, h.status, h.hook, TRUE, due, expired)

mkdir(path, due, expired) ==
  \/ EROFS("mkdir", path)
  \/ /\ ~ read_only
     /\ LET h == mkdir_call(State, path) IN
        Return("mkdir", path, h.s, h.status, h.hook, TRUE, due, expired)

mknod(path, mode, due, expired) ==
  \/ EROFS("mknod", path)
  \/ /\ ~ read_only
     /\ LET h == mknod_call(State, path, mode) IN
        Return("mknod", path, h.s, h.status, h.hook, TRUE, due, expired)

symlink(target_path, link_path, due, expired) ==
  \/ EROFS("symlink", link_path)
  \/ /\ ~ read_only
     /\ LET h == symlink_call(State, target_path, link_path) IN
        Return("symlink", link_path, h.s, h.status, h.hook, TRUE, due, expired)

link(target_path, link_path, due, expired) ==
  \/ EROFS("link", link_path)
  \/ /\ ~ read_only
     /\ LET h == link_call(State, target_path, link_path) IN
        Return("link", link_path, h.s, IF h.exc = "none" THEN "ok" ELSE except_to_status(h.exc, "EIO"),
               h.exc = "none", TRUE, due, expired)

unlink(path, expired) ==
  \/ EROFS("unlink", path)
  \/ /\ ~ read_only
     /\ LET h == unlink_call(State, path) IN
        Return("unlink", path, h.s, IF h.exc = "none" THEN "ok" ELSE except_to_status(h.exc, "ENOENT"),
               FALSE, TRUE, FALSE, expired)

rmdir(path, expired) ==
  \/ EROFS("rmdir", path)
  \/ /\ ~ read_only
     /\ LET h == rmdir_call(State, path) IN
        Return("rmdir", path, h.s, h.status, FALSE, TRUE, FALSE, expired)

rename(old_path, new_path, due, expired) ==
  \/ EROFS("rename", old_path)
  \/ /\ ~ read_only
     /\ LET h == rename_call(State, old_path, new_path) IN
        Return("rename", old_path, h.s, h.status, h.hook, TRUE, due, expired)

read(path, length, offset, expired) ==
  LET h == read_call(State, path, length, offset) IN
  Return("read", path, h.s, h.status, FALSE, path \notin DOMAIN buffers, FALSE, expired)

write(path, data, offset, expired) ==
  LET h == write_call(State, path, data, offset) IN
  Return("write", path, h.s, h.status, FALSE, path \notin DOMAIN buffers, FALSE, expired)

release(path, due, expired) ==
  LET h == release_call(State, path)
      s == IF h.drop /\ ~ (h.hook /\ gc_due(due))
           THEN [h.s EXCEPT !.buffers = drop_buffer(@, path)] ELSE h.s
  IN  Return("release", path, s, h.status, h.hook,
             path \in DOMAIN buffers /\ buffers[path].dirty, due, expired)

chown(path, uid, due, expired) ==
  \/ EROFS("chown", path)
  \/ /\ ~ read_only
     /\ LET h == chown_call(State, path, uid) IN
        Return("chown", path, h.s, h.status, h.hook, TRUE, due, expired)

truncate(path, size, due, expired) ==
  \/ EROFS("truncate", path)
  \/ /\ ~ read_only
     /\ LET h == truncate_call(State, path, size) IN
        Return("truncate", path, h.s, h.status, h.hook, TRUE, due, expired)

\* __collect_garbage called from __gc_hook, and the rest of the callback: an
\* exception goes to the callback's except clause, otherwise release deletes
\* its Buffer and the callback returns its status
gc_hook ==
  /\ pc \notin {Idle, Stopped}
  /\ LET g == collect_garbage(State)
         s == IF g.exc = "none" /\ pc.op = "release"
              THEN [g.s EXCEPT !.buffers = drop_buffer(@, pc.path)] ELSE g.s
     IN  /\ Store(finish(State, s, end_of_call(pc.op, ret.status, TRUE, "collected", g.exc)))
         /\ ret' = [status |-> IF g.exc = "none" THEN ret.status
                               ELSE except_to_status(g.exc, default_code(pc.op)),
                    gc |-> TRUE]
  /\ pc' = Idle
  /\ UNCHANGED opcount

\* fsdestroy: the unmount.  The Buffers and the path cache end with the
\* process (fsinit starts the next one without them).
fsdestroy ==
  /\ pc = Idle
  /\ LET g == collect_garbage(State) IN
     /\ Store(finish(State, g.s, IF g.exc = "none" /\ ~ read_only THEN "commit"
                                 ELSE "rollback"))
     /\ ret' = [status |-> IF g.exc = "none" THEN "ok" ELSE except_to_status(g.exc, "EIO"),
                gc |-> TRUE]
  /\ pc' = Stopped
  /\ UNCHANGED opcount

\* __get_opts_from_db(options): the values in effect and the warnings logged,
\* for the command-line values cmdline
get_opts_from_db(cmdline) ==
  [block_size |->
     IF options.block_size # cmdline.block_size THEN options.block_size
     ELSE cmdline.block_size,
   compression_method |->
     IF options.compression_method # cmdline.compression_method
     THEN options.compression_method ELSE cmdline.compression_method,
   hash_function |->
     IF options.hash_function # cmdline.hash_function THEN options.hash_function
     ELSE cmdline.hash_function,
   warnings |->
     {n \in {"block_size"} : options.block_size # cmdline.block_size}
     \cup {n \in {"compression_method"} :
             /\ options.compression_method # cmdline.compression_method
             /\ cmdline.compression_method # "none"}
     \cup {n \in {"hash_function"} : options.hash_function # cmdline.hash_function}]

\* the modules __init__ looks for
Modules == {"lzo", "zlib", "bz2"}

\* __select_compress_method, with self.compressors built by __init__ from the
\* modules that can be imported: the method whose pair is put in effect, and
\* whether "Invalid compression format" is logged
select_compress_method(method, modules) ==
  IF method \notin {"none"} \cup (modules \cap Modules)
  THEN [selected |-> "none", warned |-> TRUE]
  ELSE [selected |-> method, warned |-> FALSE]

\* fsinit of a new process on an existing store; writable: os.access(W_OK)
\* holds for both files (__check_data_file); modules: the compression
\* modules the process can import
fsinit(cmdline, writable, modules) ==
  /\ pc = Stopped
  /\ LET o == get_opts_from_db(cmdline) IN
     /\ block_size' = o.block_size
     /\ compression_method' = o.compression_method
     /\ hash_function' = o.hash_function
     /\ LET c == select_compress_method(o.compression_method, modules) IN
        /\ compressor' = c.selected
        /\ warnings' = o.warnings \cup {n \in {"compressor"} : c.warned}
  /\ gc_enabled' = cmdline.gc_enabled
  /\ verify_writes' = cmdline.verify_writes
  /\ read_only' = ~ writable
  /\ buffers' = <<>>
  /\ cached_nodes' = <<>>
  /\ pc' = Idle
  /\ ret' = [status |-> "ok", gc |-> FALSE]
  /\ opcount' = IF opcount < 0 THEN opcount ELSE 0
  /\ cache_clock' = [last_used |-> <<>>, now |-> cache_clock.now, requests |-> 0,
                     last_run |-> cache_clock.now]
  /\ UNCHANGED <<tree, inodes, links, hashes, index, blocks, options, txn>>

----------------------------------------------------------------------------
(* The state after fsinit on first use: init_metastore's root rows. *)

InitStore ==
  /\ tree = {[id |-> 1, parent_id |-> 0, name |-> "", inode |-> 1]}
  /\ inodes = [i \in {1} |-> [nlinks |-> 2, mode |-> S_IFDIR, uid |-> 0, size |-> DirSize]]
  /\ links = {}
  /\ hashes = {}
  /\ index = {}
  /\ blocks = <<>>
  /\ cached_nodes = <<>>
  /\ buffers = <<>>
  /\ read_only = FALSE
  /\ txn = NoTxn
  /\ pc = Idle
  /\ ret = [status |-> "ok", gc |-> FALSE]

\* init_metastore saves the options of the first mount, and fsinit selects
\* the compressor the command line named
Persisted ==
  /\ options = [block_size |-> block_size, compression_method |-> compression_method,
                hash_function |-> hash_function]
  /\ compressor = select_compress_method(compression_method, Modules).selected
  /\ warnings = {}

----------------------------------------------------------------------------
(* What the kernel delivers.  The VFS layer resolves the names of a call   *)
(* (through getattr) before it calls the file system: it creates only      *)
(* names that do not exist in an existing directory, unlinks only          *)
(* non-directories, removes only directories, never links a directory and  *)
(* never renames a file over a directory, a directory over a file, or a    *)
(* directory into itself.  Whether a directory is empty is left to the     *)
(* file system.                                                            *)

\* the tree row a walk of the tree table from the root reaches, or None
RECURSIVE TreeRow(_, _)
TreeRow(tr, path) ==
  IF path = <<>> THEN CHOOSE r \in tr : r.id = 1
  ELSE LET parent == TreeRow(tr, Front(path)) IN
       IF parent = None THEN None
       ELSE LET rows == {r \in tr : r.parent_id = parent.id /\ r.name = Last(path)} IN
            IF rows = {} THEN None ELSE CHOOSE r \in rows : TRUE

\* getattr(path) succeeds
Exists(path) == TreeRow(tree, path) # None /\ TreeRow(tree, path).inode \in DOMAIN inodes

ModeOf(path) == inodes[TreeRow(tree, path).inode].mode

IsDir(path) == Exists(path) /\ ModeOf(path) = S_IFDIR

IsLnk(path) == Exists(path) /\ ModeOf(path) = S_IFLNK

IsReg(path) == Exists(path) /\ ModeOf(path) = S_IFREG

Creatable(path) == ~ Exists(path) /\ IsDir(Front(path))

Renamable(old_path, new_path) ==
  /\ Exists(old_path)
  /\ ~ IsPrefix(old_path, new_path)
  /\ ~ IsPrefix(new_path, old_path)
  /\ IsDir(Front(new_path))
  /\ Exists(new_path) =>
       /\ IsDir(old_path) <=> IsDir(new_path)
       /\ TreeRow(tree, old_path).inode # TreeRow(tree, new_path).inode

(* Namespace operations over a two-level tree. *)

TreePaths == {<<"a">>, <<"b">>, <<"a", "a">>}

InitTree ==
  /\ InitStore
  /\ opcount = -1
  /\ cache_clock = [last_used |-> <<>>, now |-> 0, requests |-> 0, last_run |-> 0]
  /\ block_size = 1
  /\ compression_method = "none"
  /\ verify_writes = FALSE
  /\ gc_enabled = TRUE
  /\ hash_function = "sha1"
  /\ Persisted

NextTree ==
  \/ \E p \in TreePaths : \E e \in Expirable({p}) : getattr(p, e)
  \/ \E p \in TreePaths, d \in BOOLEAN : \E e \in Expirable({p}) :
       (Creatable(p) \/ IsReg(p)) /\ create(p, S_IFREG, TRUE, d, e)
  \/ \E p \in TreePaths, d \in BOOLEAN : \E e \in Expirable({p}) :
       Creatable(p) /\ mkdir(p, d, e)
  \/ \E p \in TreePaths, d \in BOOLEAN : \E e \in Expirable({p}) :
       Creatable(p) /\ mknod(p, S_IFBLK, d, e)
  \/ \E p, q \in TreePaths, d \in BOOLEAN : \E e \in Expirable({p, q}) :
       Exists(p) /\ ~ IsDir(p) /\ Creatable(q) /\ link(p, q, d, e)
  \/ \E p \in TreePaths : \E e \in Expirable({p}) :
       Exists(p) /\ ~ IsDir(p) /\ unlink(p, e)
  \/ \E p \in TreePaths : \E e \in Expirable({p}) : IsDir(p) /\ rmdir(p, e)
  \/ \E p, q \in TreePaths, d \in BOOLEAN : \E e \in Expirable({p, q}) :
       Renamable(p, q) /\ rename(p, q, d, e)
  \/ gc_hook

SpecTree == InitTree /\ [][NextTree]_vars

(* One file in the root directory, its Buffer and its flushes. *)

MaxDataInode == 3   \* largest inodes.inode SpecData allocates

DataPaths == {<<"a">>}

DataWrites == {<<1>>}

InitData ==
  /\ InitStore
  /\ opcount = -1
  /\ cache_clock = [last_used |-> <<>>, now |-> 0, requests |-> 0, last_run |-> 0]
  /\ block_size \in 1..MaxBlockSize
  /\ compression_method = "zlib"
  /\ verify_writes \in BOOLEAN
  /\ gc_enabled = TRUE
  /\ hash_function = "sha1"
  /\ Persisted

NextData ==
  \/ \E p \in DataPaths : \E e \in Expirable({p}) : getattr(p, e)
  \/ \E p \in DataPaths, d \in BOOLEAN : \E e \in Expirable({p}) :
       /\ IsReg(p) \/ (Creatable(p) /\ NewRowId(DOMAIN inodes) <= MaxDataInode)
       /\ create(p, S_IFREG, TRUE, d, e)
  \/ \E p \in DataPaths : \E e \in Expirable({p}) : IsReg(p) /\ unlink(p, e)
  \/ \E p \in DataPaths : \E e \in Expirable({p}) :
       IsReg(p) /\ read(p, MaxLen, 0, e)
  \/ \E p \in DataPaths, w \in DataWrites, o \in 0..(MaxLen - 1) : \E e \in Expirable({p}) :
       IsReg(p) /\ write(p, w, o, e)
  \/ \E p \in DataPaths, d \in BOOLEAN : \E e \in Expirable({p}) :
       IsReg(p) /\ release(p, d, e)
  \/ \E p \in DataPaths, n \in 0..MaxLen, d \in BOOLEAN : \E e \in Expirable({p}) :
       IsReg(p) /\ truncate(p, n, d, e)
  \/ gc_hook

SpecData == InitData /\ [][NextData]_vars

(* Two files in the root directory that hold the same byte, and their hard *)
(* links.                                                                  *)

SharePaths == {<<"a">>, <<"b">>}

ShareWrites == {<<1>>}

InitShare ==
  /\ InitStore
  /\ opcount = -1
  /\ cache_clock = [last_used |-> <<>>, now |-> 0, requests |-> 0, last_run |-> 0]
  /\ block_size = 1
  /\ compression_method = "none"
  /\ verify_writes = FALSE
  /\ gc_enabled = TRUE
  /\ hash_function = "sha1"
  /\ Persisted

NextShare ==
  \/ \E p \in SharePaths, d \in BOOLEAN :
       /\ IsReg(p) \/ (Creatable(p) /\ NewRowId(DOMAIN inodes) <= MaxDataInode)
       /\ create(p, S_IFREG, TRUE, d, {})
  \/ \E p, q \in SharePaths, d \in BOOLEAN :
       IsReg(p) /\ Creatable(q) /\ link(p, q, d, {})
  \/ \E p \in SharePaths : IsReg(p) /\ unlink(p, {})
  \/ \E p \in SharePaths, w \in ShareWrites, o \in 0..(MaxLen - 1) :
       IsReg(p) /\ write(p, w, o, {})
  \/ \E p \in SharePaths, d \in BOOLEAN : IsReg(p) /\ release(p, d, {})
  \/ gc_hook

SpecShare == InitShare /\ [][NextShare]_vars

(* Two regular files in the root directory, their Buffers, and rename. *)

MovePaths == {<<"a">>, <<"b">>}

MoveWrites == {<<1>>}

InitMove ==
  /\ InitStore
  /\ opcount = -1
  /\ cache_clock = [last_used |-> <<>>, now |-> 0, requests |-> 0, last_run |-> 0]
  /\ block_size = 1
  /\ compression_method = "none"
  /\ verify_writes = FALSE
  /\ gc_enabled = TRUE
  /\ hash_function = "sha1"
  /\ Persisted

NextMove ==
  \/ \E p \in MovePaths :
       /\ IsReg(p) \/ (Creatable(p) /\ NewRowId(DOMAIN inodes) <= MaxDataInode)
       /\ create(p, S_IFREG, TRUE, FALSE, {})
  \/ \E p \in MovePaths : IsReg(p) /\ read(p, MaxLen, 0, {})
  \/ \E p \in MovePaths, w \in MoveWrites, o \in 0..(MaxLen - 1) :
       IsReg(p) /\ write(p, w, o, {})
  \/ \E p \in MovePaths : IsReg(p) /\ release(p, FALSE, {})
  \/ \E p, q \in MovePaths : Renamable(p, q) /\ rename(p, q, FALSE, {})

SpecMove == InitMove /\ [][NextMove]_vars

(* One file, and mounts of the store it is in: fsdestroy, then fsinit with  *)
(* other command-line options, with the store files writable or not.        *)

MountPaths == {<<"a">>}

MountWrites == {<<1>>}

\* the command lines: --block-size, --compress, --hash
CmdLines ==
  [block_size : 1..MaxBlockSize, compression_method : {"none", "zlib"},
   hash_function : {"sha1", "md5"}, gc_enabled : {TRUE}, verify_writes : {FALSE}]

InitMount ==
  /\ InitStore
  /\ opcount = -1
  /\ cache_clock = [last_used |-> <<>>, now |-> 0, requests |-> 0, last_run |-> 0]
  /\ \E c \in CmdLines :
       /\ block_size = c.block_size
       /\ compression_method = c.compression_method
       /\ hash_function = c.hash_function
       /\ gc_enabled = c.gc_enabled
       /\ verify_writes = c.verify_writes
  /\ Persisted

NextMount ==
  \/ \E p \in MountPaths :
       /\ IsReg(p) \/ (Creatable(p) /\ NewRowId(DOMAIN inodes) <= MaxDataInode)
       /\ create(p, S_IFREG, TRUE, FALSE, {})
  \/ \E p \in MountPaths : IsReg(p) /\ unlink(p, {})
  \/ \E p \in MountPaths : IsReg(p) /\ read(p, MaxLen, 0, {})
  \/ \E p \in MountPaths, w \in MountWrites, o \in 0..(MaxLen - 1) :
       IsReg(p) /\ write(p, w, o, {})
  \/ \E p \in MountPaths : IsReg(p) /\ release(p, FALSE, {})
  \/ fsdestroy
  \/ \E c \in CmdLines, w \in BOOLEAN : fsinit(c, w, Modules)

SpecMount == InitMount /\ [][NextMount]_vars

(* Two files under a hasher whose digests collide; after the process has    *)
(* exited the store is mounted again.                                       *)

CollidePaths == {<<"a">>, <<"b">>}

CollideWrites == {<<1>>}

InitCollide ==
  /\ InitStore
  /\ opcount = -1
  /\ cache_clock = [last_used |-> <<>>, now |-> 0, requests |-> 0, last_run |-> 0]
  /\ block_size = 1
  /\ compression_method = "none"
  /\ verify_writes = FALSE
  /\ gc_enabled = TRUE
  /\ hash_function = "constant"
  /\ Persisted

NextCollide ==
  \/ \E p \in CollidePaths :
       /\ IsReg(p) \/ (Creatable(p) /\ NewRowId(DOMAIN inodes) <= MaxDataInode)
       /\ create(p, S_IFREG, TRUE, FALSE, {})
  \/ \E p \in CollidePaths : IsReg(p) /\ read(p, MaxLen, 0, {})
  \/ \E p \in CollidePaths, w \in CollideWrites, o \in 0..(MaxLen - 1) :
       IsReg(p) /\ write(p, w, o, {})
  \/ \E p \in CollidePaths : IsReg(p) /\ release(p, FALSE, {})
  \/ \E c \in CmdLines :
       c.block_size = 1 /\ c.compression_method = "none" /\ fsinit(c, TRUE, Modules)

SpecCollide == InitCollide /\ [][NextCollide]_vars

(* Symbolic links and regular files in the root directory. *)

LinkPaths == {<<"a">>, <<"b">>}

\* the targets of the symlink calls
LinkTargets == {<<"x">>, <<"y", "y">>}

InitLink ==
  /\ InitStore
  /\ opcount = -1
  /\ cache_clock = [last_used |-> <<>>, now |-> 0, requests |-> 0, last_run |-> 0]
  /\ block_size = 1
  /\ compression_method = "none"
  /\ verify_writes = FALSE
  /\ gc_enabled = TRUE
  /\ hash_function = "sha1"
  /\ Persisted

NextLink ==
  \/ \E p \in LinkPaths, d \in BOOLEAN :
       /\ IsReg(p) \/ (Creatable(p) /\ NewRowId(DOMAIN inodes) <= MaxDataInode)
       /\ create(p, S_IFREG, TRUE, d, {})
  \/ \E g \in LinkTargets, p \in LinkPaths, d \in BOOLEAN :
       /\ Creatable(p) /\ NewRowId(DOMAIN inodes) <= MaxDataInode
       /\ symlink(g, p, d, {})
  \/ \E p, q \in LinkPaths, d \in BOOLEAN :
       Exists(p) /\ Creatable(q) /\ link(p, q, d, {})
  \/ \E p \in LinkPaths : Exists(p) /\ unlink(p, {})
  \/ \E p \in LinkPaths : IsLnk(p) /\ readlink(p, {})
  \/ gc_hook

SpecLink == InitLink /\ [][NextLink]_vars

(* Creations onto names that may exist: the kernel's lookup does not       *)
(* filter these calls (its cached lookup may be stale).                     *)

NamePaths == {<<"a">>, <<"b">>}

NameTargets == {<<"x">>}

InitName ==
  /\ InitStore
  /\ opcount = -1
  /\ cache_clock = [last_used |-> <<>>, now |-> 0, requests |-> 0, last_run |-> 0]
  /\ block_size = 1
  /\ compression_method = "none"
  /\ verify_writes = FALSE
  /\ gc_enabled = TRUE
  /\ hash_function = "sha1"
  /\ Persisted

\* the inodes table has room for one more row of the model
Room == NewRowId(DOMAIN inodes) <= MaxDataInode

NextName ==
  \/ \E p \in NamePaths, d \in BOOLEAN : Room /\ create(p, S_IFREG, TRUE, d, {})
  \/ \E p \in NamePaths : Room /\ mkdir(p, FALSE, {})
  \/ \E p \in NamePaths : Room /\ mknod(p, S_IFBLK, FALSE, {})
  \/ \E g \in NameTargets, p \in NamePaths : Room /\ symlink(g, p, FALSE, {})
  \/ \E p, q \in NamePaths : Exists(p) /\ ~ IsDir(p) /\ link(p, q, FALSE, {})
  \/ \E p \in NamePaths : Exists(p) /\ ~ IsDir(p) /\ unlink(p, {})
  \/ \E p \in NamePaths : IsDir(p) /\ rmdir(p, {})
  \/ gc_hook

SpecName == InitName /\ [][NextName]_vars

(* One file under mounts with and without --nogc, writable or read-only.   *)

\* the masks of access: F_OK, R_OK, W_OK, R_OK | W_OK
GateFlags == {{}, {"R"}, {"W"}, {"R", "W"}}

GateCmdLines ==
  [block_size : {1}, compression_method : {"none"}, hash_function : {"sha1"},
   gc_enabled : BOOLEAN, verify_writes : {FALSE}]

InitGate ==
  /\ InitStore
  /\ opcount = -1
  /\ cache_clock = [last_used |-> <<>>, now |-> 0, requests |-> 0, last_run |-> 0]
  /\ block_size = 1
  /\ compression_method = "none"
  /\ verify_writes = FALSE
  /\ gc_enabled \in BOOLEAN
  /\ hash_function = "sha1"
  /\ Persisted

NextGate ==
  \/ \E p \in MountPaths, d \in BOOLEAN :
       /\ IsReg(p) \/ (Creatable(p) /\ NewRowId(DOMAIN inodes) <= MaxDataInode)
       /\ create(p, S_IFREG, TRUE, d, {})
  \/ \E p \in MountPaths : IsReg(p) /\ unlink(p, {})
  \/ \E p \in MountPaths : IsReg(p) /\ write(p, <<1>>, 0, {})
  \/ \E p \in MountPaths, d \in BOOLEAN : IsReg(p) /\ release(p, d, {})
  \/ \E p \in MountPaths \cup {<<>>}, f \in GateFlags, a \in BOOLEAN : access(p, f, a, {})
  \/ gc_hook
  \/ fsdestroy
  \/ \E c \in GateCmdLines, w \in BOOLEAN : fsinit(c, w, Modules)

SpecGate == InitGate /\ [][NextGate]_vars

(* One file in a store that is mounted by processes with and without the   *)
(* lzo binding installed.                                                   *)

CompressCmdLines ==
  [block_size : {1}, compression_method : {"none", "lzo"}, hash_function : {"sha1"},
   gc_enabled : {TRUE}, verify_writes : {FALSE}]

InitCompress ==
  /\ InitStore
  /\ opcount = -1
  /\ cache_clock = [last_used |-> <<>>, now |-> 0, requests |-> 0, last_run |-> 0]
  /\ block_size = 1
  /\ compression_method \in {"none", "lzo"}
  /\ verify_writes = FALSE
  /\ gc_enabled = TRUE
  /\ hash_function = "sha1"
  /\ Persisted

\* --compress takes only the methods the process found (choices of the parser)
NextCompress ==
  \/ \E p \in MountPaths :
       /\ IsReg(p) \/ (Creatable(p) /\ NewRowId(DOMAIN inodes) <= MaxDataInode)
       /\ create(p, S_IFREG, TRUE, FALSE, {})
  \/ \E p \in MountPaths : IsReg(p) /\ read(p, MaxLen, 0, {})
  \/ \E p \in MountPaths, w \in {<<0>>, <<1>>}, o \in 0..(MaxLen - 1) :
       IsReg(p) /\ write(p, w, o, {})
  \/ \E p \in MountPaths : IsReg(p) /\ release(p, FALSE, {})
  \/ fsdestroy
  \/ \E c \in CompressCmdLines, m \in {Modules, Modules \ {"lzo"}} :
       c.compression_method \in {"none"} \cup m /\ fsinit(c, TRUE, m)

SpecCompress == InitCompress /\ [][NextCompress]_vars

(* One file whose owner and size change between creations and removals,   *)
(* with the collector due in any of the calls that reach __gc_hook.         *)

InitCommit ==
  /\ InitStore
  /\ opcount = -1
  /\ cache_clock = [last_used |-> <<>>, now |-> 0, requests |-> 0, last_run |-> 0]
  /\ block_size = 1
  /\ compression_method = "none"
  /\ verify_writes = FALSE
  /\ gc_enabled = TRUE
  /\ hash_function = "sha1"
  /\ Persisted

NextCommit ==
  \/ \E p \in DataPaths, d \in BOOLEAN :
       /\ IsReg(p) \/ (Creatable(p) /\ NewRowId(DOMAIN inodes) <= MaxDataInode)
       /\ create(p, S_IFREG, TRUE, d, {})
  \/ \E p \in DataPaths : IsReg(p) /\ unlink(p, {})
  \/ \E p \in DataPaths, u \in {0, 1}, d \in BOOLEAN : Exists(p) /\ chown(p, u, d, {})
  \/ \E p \in DataPaths, n \in 0..MaxLen, d \in BOOLEAN : IsReg(p) /\ truncate(p, n, d, {})
  \/ \E p \in DataPaths : IsReg(p) /\ write(p, <<1>>, 0, {})
  \/ \E p \in DataPaths, d \in BOOLEAN : IsReg(p) /\ release(p, d, {})
  \/ gc_hook

SpecCommit == InitCommit /\ [][NextCommit]_vars

(* Renames between two names of the root directory, either of which may or *)
(* may not exist when the call arrives.                                     *)

InitRename ==
  /\ InitStore
  /\ opcount = -1
  /\ cache_clock = [last_used |-> <<>>, now |-> 0, requests |-> 0, last_run |-> 0]
  /\ block_size = 1
  /\ compression_method = "none"
  /\ verify_writes = FALSE
  /\ gc_enabled = TRUE
  /\ hash_function = "sha1"
  /\ Persisted

NextRename ==
  \/ \E p \in NamePaths : Room /\ Creatable(p) /\ create(p, S_IFREG, TRUE, FALSE, {})
  \/ \E p \in NamePaths : Room /\ Creatable(p) /\ mkdir(p, FALSE, {})
  \/ \E p, q \in NamePaths : IsReg(p) /\ Creatable(q) /\ link(p, q, FALSE, {})
  \/ \E p \in NamePaths : IsReg(p) /\ unlink(p, {})
  \/ \E p \in NamePaths : IsDir(p) /\ rmdir(p, {})
  \/ \E p, q \in NamePaths, d \in BOOLEAN : p # q /\ rename(p, q, d, {})
  \/ gc_hook

SpecRename == InitRename /\ [][NextRename]_vars

(* The calls that change the tree, counted by __gc_hook from the start of  *)
(* the process, with the clock free.                                        *)

MaxOps == 502       \* the calls SpecCount counts

InitCount ==
  /\ InitStore
  /\ opcount = 0
  /\ cache_clock = [last_used |-> <<>>, now |-> 0, requests |-> 0, last_run |-> 0]
  /\ block_size = 1
  /\ compression_method = "none"
  /\ verify_writes = FALSE
  /\ gc_enabled = TRUE
  /\ hash_function = "sha1"
  /\ Persisted

NextCount ==
  \/ \E p \in NamePaths, d \in BOOLEAN :
       opcount < MaxOps /\ Room /\ Creatable(p) /\ create(p, S_IFREG, TRUE, d, {})
  \/ \E p \in NamePaths, d \in BOOLEAN :
       opcount < MaxOps /\ Room /\ Creatable(p) /\ mkdir(p, d, {})
  \/ \E p \in NamePaths : IsReg(p) /\ unlink(p, {})
  \/ \E p \in NamePaths : IsDir(p) /\ rmdir(p, {})
  \/ \E p, q \in NamePaths, d \in BOOLEAN :
       opcount < MaxOps /\ IsReg(p) /\ Renamable(p, q) /\ rename(p, q, d, {})
  \/ \E p \in NamePaths, d \in BOOLEAN :
       opcount < MaxOps /\ Exists(p) /\ chown(p, 0, d, {})
  \/ gc_hook

SpecCount == InitCount /\ [][NextCount]_vars

(* Lookups in a tree of a directory and two files, by a process that has  *)
(* counted almost CacheGcEvery cache requests, with the clock followed.     *)

MaxTime == 150      \* the clock of SpecCache, in seconds

MaxRequests == 3    \* the cache requests SpecCache follows after a reset

CachePaths == {<<"a">>, <<"a", "a">>, <<"b">>, <<"c">>}

\* after mkdir(/a), create(/a/a), create(/b) and a mount, and
\* CacheGcEvery - MaxRequests - 1 lookups of a name that does not exist
InitCache ==
  /\ tree = {[id |-> 1, parent_id |-> 0, name |-> "", inode |-> 1],
             [id |-> 2, parent_id |-> 1, name |-> "a", inode |-> 2],
             [id |-> 3, parent_id |-> 2, name |-> "a", inode |-> 3],
             [id |-> 4, parent_id |-> 1, name |-> "b", inode |-> 4]}
  /\ inodes = [i \in 1..4 |->
                IF i = 1 THEN [nlinks |-> 3, mode |-> S_IFDIR, uid |-> 0, size |-> DirSize]
                ELSE IF i = 2 THEN [nlinks |-> 2, mode |-> S_IFDIR, uid |-> 0, size |-> DirSize]
                ELSE [nlinks |-> 1, mode |-> S_IFREG, uid |-> 0, size |-> 0]]
  /\ links = {}
  /\ hashes = {}
  /\ index = {}
  /\ blocks = <<>>
  /\ cached_nodes = <<>>
  /\ buffers = <<>>
  /\ read_only = FALSE
  /\ txn = NoTxn
  /\ opcount = -1
  /\ cache_clock = [last_used |-> <<>>, now |-> 0,
                    requests |-> CacheGcEvery - MaxRequests - 1, last_run |-> 0]
  /\ pc = Idle
  /\ ret = [status |-> "ok", gc |-> FALSE]
  /\ block_size = 1
  /\ compression_method = "none"
  /\ verify_writes = FALSE
  /\ gc_enabled = TRUE
  /\ hash_function = "sha1"
  /\ Persisted

\* getattr(path) with the clock: __path2keys stamps the nodes it passes and
\* ends with __cache_check_gc, then the inode row is read
getattr_timed(path) ==
  LET h == getattr_call(State, path)
      g == cache_check_gc(touch(cache_clock, h.s.cached_nodes, path), h.s.cached_nodes)
  IN  /\ pc = Idle
      /\ cached_nodes' = g.cache
      /\ cache_clock' = g.clock
      /\ ret' = [status |-> h.status, gc |-> FALSE]
      /\ UNCHANGED <<tree, inodes, links, hashes, index, blocks, buffers, block_size,
                     compression_method, compressor, verify_writes, gc_enabled, read_only,
                     hash_function, options, warnings, opcount, txn, pc>>

\* time passes between two calls
tick ==
  /\ cache_clock.now + CacheTimeout \div 2 <= MaxTime
  /\ cache_clock' = [cache_clock EXCEPT !.now = @ + CacheTimeout \div 2]
  /\ UNCHANGED <<tree, inodes, links, hashes, index, blocks, cached_nodes, buffers,
                 block_size, compression_method, compressor, verify_writes, gc_enabled,
                 read_only, hash_function, options, warnings, opcount, txn, pc, ret>>

\* getattr of a name that does not exist, as often as it takes to bring
\* the count of requests to CacheGcEvery - MaxRequests - 1: each of them
\* passes no cached node and ends with __cache_check_gc
getattr_missing ==
  /\ pc = Idle
  /\ cache_clock.requests < CacheGcEvery - MaxRequests - 1
  /\ cache_clock' = [cache_clock EXCEPT !.requests = CacheGcEvery - MaxRequests - 1]
  /\ ret' = [status |-> "ENOENT", gc |-> FALSE]
  /\ UNCHANGED <<tree, inodes, links, hashes, index, blocks, cached_nodes, buffers,
                 block_size, compression_method, compressor, verify_writes, gc_enabled,
                 read_only, hash_function, options, warnings, opcount, txn, pc>>

NextCache ==
  \/ \E p \in CachePaths :
       /\ \/ cache_clock.requests >= CacheGcEvery - MaxRequests - 1
          \/ cache_clock.requests < MaxRequests
       /\ getattr_timed(p)
  \/ getattr_missing
  \/ tick

SpecCache == InitCache /\ [][NextCache]_vars

----------------------------------------------------------------------------
(* The claims. *)

\* release(path) has run to its return: at once, or through __gc_hook
ReleaseReturns(path) ==
  \/ \E e \in Expirable({path}) : release(path, FALSE, e)
  \/ pc = [op |-> "release", path |-> path] /\ gc_hook

\* in state s, read(path, Len(data), 0) returns data and getattr(path) its length
RoundTrip(s, path, data) ==
  /\ read_call(s, path, Len(data), 0).status = "ok"
  /\ read_call(s, path, Len(data), 0).val = data
  /\ getattr_call(s, path).status = "ok"
  /\ getattr_call(s, path).val.size = Len(data)

\* C1: write/read round trip.  When release(path) returns for a regular file
\* whose Buffer is dirty, read(path, size, 0) returns exactly the bytes the
\* Buffer held at the flush and getattr(path).size is their number.
C1_RoundTrip ==
  [][\A p \in DataPaths :
       (IsReg(p) /\ p \in DOMAIN buffers /\ buffers[p].dirty /\ ReleaseReturns(p))
         => RoundTrip(State', p, buffers[p].data)]_vars

\* a flush of a non-empty Buffer has returned an error and left the size at 0
C1_FlushFailed ==
  /\ verify_writes
  /\ ret.status = "EIO"
  /\ \E p \in DataPaths :
       /\ p \in DOMAIN buffers /\ buffers[p].dirty /\ buffers[p].data # <<>>
       /\ IsReg(p) /\ getattr_call(State, p).val.size = 0
       /\ index_rows(State, TreeRow(tree, p).inode) # {}

\* the flush of release(path): the callback up to __gc_hook
Flushes(path) ==
  /\ IsReg(path) /\ path \in DOMAIN buffers /\ buffers[path].dirty
  /\ \E d \in BOOLEAN : \E e \in Expirable({path}) : release(path, d, e)

\* the bytes stored for an inode
FileData(s, inode) == read_blocks(s.blocks, index_rows(s, inode)).data

InodeOf(path) == TreeRow(tree, path).inode

\* path holds, flushed, exactly the bytes data
Holds(path, data) ==
  /\ IsReg(path)
  /\ inodes[InodeOf(path)].size = Len(data)
  /\ Cardinality({x \in index : x.inode = InodeOf(path)}) = Ceil(Len(data), block_size)
  /\ FileData(State, InodeOf(path)) = data

OneRowPerDigest ==
  \A g, h \in hashes : (g.hash = h.hash \/ g.id = h.id) => g = h

\* the Block Store has one entry for each digest, and it holds the block of
\* that digest: no block content is stored twice
OneEntryPerBlock ==
  /\ DOMAIN blocks = {h.hash : h \in hashes}
  /\ \A d \in DOMAIN blocks : hash(decompress(blocks[d])) = d

\* C2: deduplication.  hashes has at most one row per digest and the Block
\* Store exactly one entry per flushed block content; a flush adds at most
\* ceil(size / block_size) rows to hashes, and none when another file already
\* holds the same bytes, so the two flushes together add no more than that.
C2_Dedup ==
  /\ [](OneRowPerDigest /\ OneEntryPerBlock)
  /\ [][\A p \in SharePaths : Flushes(p) =>
          /\ Cardinality(hashes') - Cardinality(hashes)
                <= Ceil(Len(buffers[p].data), block_size)
          /\ \A q \in SharePaths :
               (Holds(q, buffers[p].data) /\ InodeOf(q) # InodeOf(p))
                 => hashes' = hashes /\ blocks' = blocks]_vars

\* two files of two equal blocks each, all four on one hashes row
C2_SharedBlock ==
  /\ Holds(<<"a">>, <<1, 1>>) /\ Holds(<<"b">>, <<1, 1>>)
  /\ InodeOf(<<"a">>) # InodeOf(<<"b">>)
  /\ Cardinality({x.hash_id : x \in index}) = 1

\* SELECT COUNT(*) FROM tree WHERE inode = ?
TreeRefs(inode) == Cardinality({r \in tree : r.inode = inode})

\* C3: link-count correctness.  Between callbacks, for every inode, nlinks is
\* the number of tree rows of the inode, plus 2 if it is a directory.
C3_LinkCount ==
  pc = Idle =>
    \A i \in DOMAIN inodes :
      inodes[i].nlinks = TreeRefs(i) + (IF inodes[i].mode = S_IFDIR THEN 2 ELSE 0)

\* a block device that mknod has just made: one tree row, nlinks 2
C3_DeviceLinks ==
  /\ pc = Idle
  /\ \E i \in DOMAIN inodes :
       inodes[i].mode = S_IFBLK /\ TreeRefs(i) = 1 /\ inodes[i].nlinks = 2

\* C4: referential integrity of the tree.  Between callbacks every tree row's
\* inode is a row of inodes, so getattr succeeds for every path that resolves.
C4_TreeIntegrity ==
  pc = Idle =>
    /\ \A r \in tree : r.inode \in DOMAIN inodes
    /\ \A p \in TreePaths :
         path2keys(tree, cached_nodes, p).exc = "none"
           => getattr_call(State, p).status = "ok"

\* a directory that resolves and has lost its inode to the garbage collector
C4_Dangling ==
  /\ pc = Idle /\ ret.gc
  /\ \E p \in TreePaths :
       /\ TreeRow(tree, p) # None
       /\ TreeRow(tree, p).inode \notin DOMAIN inodes
       /\ getattr_call(State, p).status = "ENOENT"

\* the keys of the tree row a cache-free walk reaches, or None
WalkKeys(path) ==
  IF TreeRow(tree, path) = None THEN None
  ELSE <<TreeRow(tree, path).id, TreeRow(tree, path).inode>>

\* C5: cache coherence.  After every callback has returned, with success or
\* with an error, every entry of the path cache holds the (tree id, inode)
\* of the tree row a cache-free walk from the root reaches for its path, and
\* resolving a path through the cache gives what the tree table alone gives.
C5_CacheCoherent ==
  pc = Idle =>
    /\ \A p \in DOMAIN cached_nodes : cached_nodes[p] = WalkKeys(p)
    /\ \A p \in TreePaths :
         LET k == path2keys(tree, cached_nodes, p) IN
         IF WalkKeys(p) = None THEN k.exc = "ENOENT"
         ELSE k.exc = "none" /\ k.keys = WalkKeys(p)

\* rename has replaced the tree row of a cached path, a later rmdir has
\* failed, and the cache holds the keys of the new row
C5_CachedAfterFailure ==
  /\ pc = Idle /\ ret.status = "ENOTEMPTY"
  /\ <<"a">> \in DOMAIN cached_nodes /\ <<"a", "a">> \in DOMAIN cached_nodes
  /\ cached_nodes[<<"a", "a">>][1] = MaxTreeId

BlockNrs(inode) == {x.block_nr : x \in {y \in index : y.inode = inode}}

\* C6: gap-free block index.  At the end of every callback that commits, for
\* every regular-file inode with nlinks > 0 the block numbers of its index
\* rows are exactly 0 .. ceil(size / block_size) - 1 (none when the size is 0).
C6_GapFree ==
  (pc = Idle /\ ret.status = "ok") =>
    \A i \in DOMAIN inodes :
      (inodes[i].mode = S_IFREG /\ inodes[i].nlinks > 0)
        => BlockNrs(i) = 0..(Ceil(inodes[i].size, block_size) - 1)

\* truncate to 0 has returned 0 and block 0 is still indexed
C6_StaleBlock ==
  /\ pc = Idle /\ ret.status = "ok" /\ buffers = <<>>
  /\ \E p \in DataPaths :
       IsReg(p) /\ inodes[InodeOf(p)].size = 0 /\ BlockNrs(InodeOf(p)) = {0}

\* C7: block reachability.  In every reachable state, also after a failed
\* flush and inside or after a garbage collection, every index row's hash_id
\* is the id of a hashes row and every hashes row's digest is a key of the
\* Block Store.
C7_BlocksReachable ==
  /\ \A x \in index : \E h \in hashes : h.id = x.hash_id
  /\ \A h \in hashes : h.hash \in DOMAIN blocks

\* a garbage collection has left a hashes row that no index row refers to,
\* beside one that is in use
C7_AfterGC ==
  /\ pc = Idle /\ ret.gc
  /\ index # {}
  /\ \E h \in hashes : \A x \in index : x.hash_id # h.id

\* C8: the garbage collector never destroys live data.  A run of it removes
\* a block only if no index row refers to its hash and an inode only if its
\* nlinks is 0; and over unlink(p) as over any run of the collector, another
\* link q of the file resolves to the same inode and reads the same bytes.
C8_LiveDataKept ==
  [][/\ gc_hook =>
          /\ \A i \in DOMAIN inodes \ DOMAIN inodes' : inodes[i].nlinks = 0
          /\ \A d \in DOMAIN blocks \ DOMAIN blocks' :
               ~ \E x \in index, h \in hashes : h.id = x.hash_id /\ h.hash = d
          /\ \A q \in SharePaths : IsReg(q) =>
               /\ IsReg(q)' /\ InodeOf(q)' = InodeOf(q)
               /\ read_call(State', q, MaxLen, 0).val = read_call(State, q, MaxLen, 0).val
     /\ \A p, q \in SharePaths :
          (p # q /\ IsReg(p) /\ IsReg(q) /\ InodeOf(p) = InodeOf(q) /\ unlink(p, {})) =>
            /\ IsReg(q)' /\ InodeOf(q)' = InodeOf(q)
            /\ read_call(State', q, MaxLen, 0).val = read_call(State, q, MaxLen, 0).val]_vars

\* /b was a hard link of /a, /a is unlinked, the collector has run and has
\* deleted an inode, and /b still holds the two blocks
C8_LinkSurvives ==
  /\ pc = Idle /\ ret.gc
  /\ ~ Exists(<<"a">>) /\ Holds(<<"b">>, <<1, 1>>)
  /\ TreeRow(tree, <<"b">>).id = 3 /\ InodeOf(<<"b">>) = 2
  /\ DOMAIN inodes = {1, 2}
  /\ buffers = <<>>

NoDeadInode == \A i \in DOMAIN inodes : inodes[i].nlinks # 0

NoOrphanIndex == \A x \in index : x.inode \in DOMAIN inodes

NoOrphanHash == \A h \in hashes : \E x \in index : x.hash_id = h.id

\* C9: postcondition of the garbage collector.  Right after a collection
\* that ran (GC enabled, store writable) no inodes row has nlinks = 0, no
\* index row is of a missing inode and no hashes row is without an index row.
C9_GCPost ==
  (pc = Idle /\ ret.gc /\ gc_enabled /\ ~ read_only) =>
    NoDeadInode /\ NoOrphanIndex /\ NoOrphanHash

\* the collector has deleted the inode of an unlinked file and its index
\* rows, and the hashes row and the block of its content are still there
C9_OrphanHash ==
  /\ pc = Idle /\ ret.gc /\ gc_enabled
  /\ 2 \notin DOMAIN inodes /\ NoDeadInode /\ index = {}
  /\ hashes # {} /\ DOMAIN blocks # {}

\* C10: soundness of the garbage collector.  Right after a collection every
\* inodes row has a tree row, every index row is of an existing inode, every
\* hashes row has an index row and every key of the Block Store is the digest
\* of a hashes row.
C10_GCSound ==
  (pc = Idle /\ ret.gc /\ gc_enabled /\ ~ read_only) =>
    /\ \A i \in DOMAIN inodes : TreeRefs(i) > 0
    /\ NoOrphanIndex
    /\ NoOrphanHash
    /\ \A d \in DOMAIN blocks : \E h \in hashes : h.hash = d

\* the collector has run and the inode of a removed directory is still
\* there, with nlinks 1 and no tree row
C10_OrphanDirectory ==
  /\ pc = Idle /\ ret.gc /\ gc_enabled
  /\ \E i \in DOMAIN inodes :
       inodes[i].mode = S_IFDIR /\ inodes[i].nlinks = 1 /\ TreeRefs(i) = 0

\* the tables of the Metadata Store
Tables == <<tree, inodes, links, hashes, index>>

\* C11: failure atomicity.  Whenever a callback returns an error code, every
\* table of the Metadata Store (tree, inodes, links, hashes, index) is what it
\* was before the callback started.  (Stated for the callbacks that return
\* without entering the garbage collector: one step of the model.)
C11_FailureAtomic ==
  [][(pc = Idle /\ pc' = Idle /\ ret'.status \notin {"ok", "exit"})
       => UNCHANGED Tables]_vars

\* a flush has returned an error and its hashes and index rows are in the tables
C11_PartialFlush ==
  /\ ret.status = "EIO"
  /\ ~ ret.gc
  /\ \E p \in DataPaths :
       /\ p \in DOMAIN buffers /\ buffers[p].dirty
       /\ \E x \in index, h \in hashes :
            /\ x.inode = InodeOf(p) /\ x.hash_id = h.id
            /\ inodes[InodeOf(p)].size = 0

\* C12: rename overwrite.  old and new name regular files with different
\* inodes.  After a successful rename(old, new): old is no such entry, new
\* resolves to the inode old had, read(new) returns old's content (what
\* read(old) returned before, or what the inode has stored), the link count
\* of that inode is unchanged and the link count of the inode new had is
\* one less.
C12_RenameOverwrite ==
  [][\A p, q \in MovePaths :
       (/\ IsReg(p) /\ IsReg(q) /\ InodeOf(p) # InodeOf(q)
        /\ rename(p, q, FALSE, {})
        /\ ret'.status = "ok")
       => /\ getattr_call(State', p).status = "ENOENT"
          /\ path2keys(tree', cached_nodes', q).exc = "none"
          /\ path2keys(tree', cached_nodes', q).keys[2] = InodeOf(p)
          /\ read_call(State', q, MaxLen, 0).val
               \in {read_call(State, p, MaxLen, 0).val, FileData(State, InodeOf(p))}
          /\ inodes'[InodeOf(p)].nlinks = inodes[InodeOf(p)].nlinks
          /\ inodes'[InodeOf(q)].nlinks = inodes[InodeOf(q)].nlinks - 1]_vars

\* /b names a file with stored bytes while the Buffer kept under /b holds
\* other bytes that were never written to that file
C12_StaleBuffer ==
  /\ IsReg(<<"b">>) /\ ~ Exists(<<"a">>)
  /\ <<"b">> \in DOMAIN buffers
  /\ ~ buffers[<<"b">>].dirty
  /\ FileData(State, InodeOf(<<"b">>)) # <<>>
  /\ buffers[<<"b">>].data = <<>>

\* the directory at path has a child tree row
HasChild(path) == \E r \in tree : r.parent_id = TreeRow(tree, path).id

\* rmdir(path) on an empty directory: its tree row is deleted, the link
\* counts of its inode and of its parent's inode are one less, and the path
\* no longer resolves
RmdirDone(path) ==
  /\ ret'.status = "ok"
  /\ tree' = tree \ {TreeRow(tree, path)}
  /\ inodes' = add_nlinks(add_nlinks(inodes, TreeRow(tree, path).inode, -1),
                          TreeRow(tree, Front(path)).inode, -1)
  /\ getattr_call(State', path).status = "ENOENT"

\* C13 as stated: rmdir on a directory with a child returns not-empty and
\* leaves tree, inodes and the path cache as they were; rmdir on an empty
\* directory does what RmdirDone says.
C13_RmdirFrame ==
  [][\A p \in TreePaths :
       (IsDir(p) /\ \E e \in Expirable({p}) : rmdir(p, e))
       => IF HasChild(p)
          THEN ret'.status = "ENOTEMPTY" /\ UNCHANGED <<tree, inodes, cached_nodes>>
          ELSE RmdirDone(p)]_vars

\* C13, amended: rmdir on a directory with a child returns not-empty and
\* leaves tree and inodes as they were; the path cache keeps or loses its
\* entries and gains only entries for the segments of the path, each holding
\* the keys of its tree row.  rmdir on an empty directory does what RmdirDone
\* says.
C13_Rmdir ==
  [][\A p \in TreePaths :
       (IsDir(p) /\ \E e \in Expirable({p}) : rmdir(p, e))
       => IF HasChild(p)
          THEN /\ ret'.status = "ENOTEMPTY"
               /\ UNCHANGED <<tree, inodes>>
               /\ \A k \in DOMAIN cached_nodes' :
                    \/ k \in DOMAIN cached_nodes /\ cached_nodes'[k] = cached_nodes[k]
                    \/ IsPrefix(k, p) /\ cached_nodes'[k] = WalkKeys(k)
          ELSE RmdirDone(p)]_vars

\* rmdir has refused a directory that has a child
C13_Refused ==
  /\ ret.status = "ENOTEMPTY"
  /\ IsDir(<<"a">>) /\ Exists(<<"a", "a">>)
  /\ <<"a">> \in DOMAIN cached_nodes

\* C14: read-only mount.  In read-only mode no callback modifies or attempts
\* to modify the Metadata Store or the Block Store: no step changes a table
\* or a block, and no release reaches __write_blocks.
C14_ReadOnly ==
  [][read_only => /\ UNCHANGED <<Tables, blocks>>
                  /\ \A p \in MountPaths : ~ Flushes(p)]_vars

\* on a read-only mount a release has tried to flush and returned an error
C14_RefusedFlush ==
  /\ read_only
  /\ pc = Idle
  /\ ret.status = "EIO"
  /\ \E p \in MountPaths : p \in DOMAIN buffers /\ buffers[p].dirty

\* the options whose command-line value differs from the persisted one
Conflicting(cmdline) ==
  {n \in {"block_size", "compression_method", "hash_function"} : cmdline[n] # options[n]}

\* C15: options immutability.  On every mount of an existing store the
\* block_size, hash_function and compression_method in effect are the
\* persisted ones, whatever the command line says, and a warning is logged
\* for every conflicting option.
C15_OptionsImmutable ==
  [][\A c \in CmdLines, w \in BOOLEAN :
       fsinit(c, w, Modules) => /\ block_size' = options.block_size
                       /\ compression_method' = options.compression_method
                       /\ hash_function' = options.hash_function
                       /\ warnings' = Conflicting(c)]_vars

\* a store created with zlib is mounted and no warning about the compression
\* method was logged, while one about the block size was
C15_SilentOverride ==
  /\ pc = Idle
  /\ options.compression_method = "zlib"
  /\ compression_method = "zlib"
  /\ warnings = {"block_size"}

\* the index rows of the file at path
IndexOf(path) == {x \in index : x.inode = InodeOf(path)}

\* the flush of release(path) finds a stored block under the digest of a
\* different block
Collides(path) ==
  /\ Flushes(path)
  /\ write_blocks(State, InodeOf(path), buffers[path].data).exc = "SystemExit"

\* C16: hash collision.  When a flush finds that the digest of a block exists
\* while the stored block differs, the process is terminated and the index
\* rows of the inode being flushed are the ones it had before the flush began.
C16_CollisionFatal ==
  [][\A p \in CollidePaths :
       Collides(p) => /\ pc' = Stopped
                      /\ IndexOf(p)' = IndexOf(p)]_vars

\* the process has exited on a collision in the second block of a file, and
\* the index row of the first block is in the table
C16_HalfRebuilt ==
  /\ pc = Stopped
  /\ ret.status = "exit"
  /\ \E p \in CollidePaths :
       /\ IsReg(p)
       /\ inodes[InodeOf(p)].size = 0
       /\ IndexOf(p) # {}

\* C17: symlink table.  In every reachable state, also after symlinks were
\* unlinked and garbage was collected, links has a row for inode i exactly
\* when inodes has i with type symlink, and at most one row per inode.
C17_LinksTable ==
  /\ \A i \in 1..MaxInode :
       (\E l \in links : l[1] = i) <=> (i \in DOMAIN inodes /\ inodes[i].mode = S_IFLNK)
  /\ \A l, m \in links : l[1] = m[1] => l = m

\* the collector has run and links still has a row for an inode it deleted
C17_OrphanTarget ==
  /\ pc = Idle
  /\ ret.gc
  /\ \E l \in links : l[1] \notin DOMAIN inodes

\* the tree rows under the parent and name of path
Named(tr, path) ==
  {r \in tr : r.parent_id = TreeRow(tr, Front(path)).id /\ r.name = Last(path)}

\* a call that creates a name: create, mkdir, mknod, symlink or link
Creates(path) ==
  \/ \E d \in BOOLEAN : Room /\ create(path, S_IFREG, TRUE, d, {})
  \/ Room /\ mkdir(path, FALSE, {})
  \/ Room /\ mknod(path, S_IFBLK, FALSE, {})
  \/ \E g \in NameTargets : Room /\ symlink(g, path, FALSE, {})
  \/ \E q \in NamePaths : Exists(q) /\ ~ IsDir(q) /\ link(q, path, FALSE, {})

\* C18: name uniqueness.  No two tree rows have the same (parent_id, name),
\* exactly one tree row, the one with id 1, has a null parent_id, and create,
\* mkdir, mknod, symlink or link onto a name that exists adds no tree row.
C18_NameUnique ==
  /\ [](\A r, u \in tree : (r.parent_id = u.parent_id /\ r.name = u.name) => r = u)
  /\ []({r.id : r \in {u \in tree : u.parent_id = 0}} = {1})
  /\ [][\A p \in NamePaths :
         (Named(tree, p) # {} /\ Creates(p)) => tree' = tree]_vars

\* a creation onto a name that exists has been refused with its inode row
\* already inserted
C18_Refused ==
  /\ ret.status = "EIO"
  /\ pc = Idle
  /\ \E p \in NamePaths : Named(tree, p) # {}
  /\ \E i \in DOMAIN inodes : i # 1 /\ TreeRefs(i) = 0 /\ inodes[i].nlinks > 0

\* C19: release always drops the Buffer.  After release(path) has returned,
\* whether the flush succeeded, failed or was not needed, the buffer pool
\* holds no Buffer for path.
C19_ReleaseDrops ==
  [][\A p \in DataPaths : ReleaseReturns(p) => p \notin DOMAIN buffers']_vars

\* release has flushed a Buffer, its __gc_hook has raised, and the Buffer is
\* still in the pool with the bytes that are now stored
C19_BufferKept ==
  /\ pc = Idle
  /\ ret = [status |-> "EIO", gc |-> TRUE]
  /\ \E p \in DataPaths :
       /\ p \in DOMAIN buffers /\ buffers[p].dirty
       /\ IsReg(p)
       /\ FileData(State, InodeOf(p)) = buffers[p].data
       /\ buffers[p].data # <<>>

\* C20: reads are pure.  Populating a Buffer from the store leaves it clean,
\* so a read of a file that has no Buffer yet leaves a Buffer that is not
\* dirty, and the release that follows reads performs no flush.
C20_ReadsPure ==
  [][\A p \in DataPaths :
       (p \notin DOMAIN buffers /\ \E e \in Expirable({p}) : read(p, MaxLen, 0, e))
       => (p \in DOMAIN buffers' => ~ buffers'[p].dirty)]_vars

\* a read has populated the Buffer of a file with stored bytes and the
\* Buffer is dirty although it holds what is stored
C20_DirtyAfterRead ==
  /\ pc = Idle
  /\ \E p \in DataPaths :
       /\ IsReg(p)
       /\ p \in DOMAIN buffers /\ buffers[p].dirty
       /\ buffers[p].data = FileData(State, InodeOf(p))
       /\ inodes[InodeOf(p)].size = Len(buffers[p].data)
       /\ index_rows(State, InodeOf(p)) # {}
       /\ release_call(State, p).hook

\* C28: initial link count.  Every inode a callback inserts has nlinks = 2
\* when its type is directory and nlinks = 1 when it is anything else
\* (regular file, device, FIFO, socket, symlink).
C28_InitialLinks ==
  [][\A i \in DOMAIN inodes' \ DOMAIN inodes :
       inodes'[i].nlinks = IF inodes'[i].mode = S_IFDIR THEN 2 ELSE 1]_vars

\* a block device has just been made and its one tree row carries two links
C28_DeviceMade ==
  /\ ret.status = "ok"
  /\ pc = Idle
  /\ \E i \in DOMAIN inodes :
       /\ inodes[i].mode = S_IFBLK
       /\ inodes[i].nlinks = 2
       /\ TreeRefs(i) = 1
       /\ \A j \in DOMAIN inodes : j <= i

\* C26: garbage-collection gating.  When garbage collection is disabled or
\* the store is read-only, an invocation of the collector, from the periodic
\* hook or from fsdestroy, leaves inodes, index, hashes and the Block Store
\* unchanged.
C26_GCGating ==
  [][((~ gc_enabled \/ read_only) /\ (gc_hook \/ fsdestroy))
       => UNCHANGED <<inodes, index, hashes, blocks>>]_vars

\* fsdestroy of a read-only mount with collection enabled has returned and
\* the inode of an unlinked file, with its index row, is still stored
C26_Skipped ==
  /\ ret.gc /\ ret.status = "ok"
  /\ pc = Stopped
  /\ read_only /\ gc_enabled
  /\ ~ NoDeadInode
  /\ \E x \in index : inodes[x.inode].nlinks = 0

\* C27: access on a read-only mount.  access(path, mask) with a mask asking
\* for write on a path that resolves returns EROFS, not permission-denied,
\* whenever the mount is read-only.
C27_AccessReadOnly ==
  [][\A p \in MountPaths \cup {<<>>}, f \in GateFlags, a \in BOOLEAN :
       (read_only /\ "W" \in f /\ Exists(p) /\ access(p, f, a, {}))
         => ret'.status = "EROFS"]_vars

\* on a read-only mount access has answered permission-denied for a file
\* the caller's permission bits allow writing
C27_Denied ==
  /\ read_only
  /\ pc = Idle
  /\ ret.status = "EACCES"
  /\ IsReg(<<"a">>)

\* the integrity the invariants ask of a store s: every tree row has its
\* inode, the block numbers of every linked regular file are gap-free, every
\* index row has its hashes row and every hashes row its block
Integral(s) ==
  /\ \A r \in s.tree : r.inode \in DOMAIN s.inodes
  /\ \A i \in DOMAIN s.inodes :
       (s.inodes[i].mode = S_IFREG /\ s.inodes[i].nlinks > 0)
         => {x.block_nr : x \in {y \in s.index : y.inode = i}}
              = 0..(Ceil(s.inodes[i].size, block_size) - 1)
  /\ \A x \in s.index : \E h \in s.hashes : h.id = x.hash_id
  /\ \A h \in s.hashes : h.hash \in DOMAIN s.blocks

\* a run of the collector on a writable store with collection enabled
Collects == gc_enabled /\ ~ read_only /\ (gc_hook \/ fsdestroy)

\* C23: the collector is idempotent and interruptible.  Wherever a run of the
\* collector stops, a store that had tree-to-inode, gap-free-index and
\* index-to-hash-to-block integrity still has it, and a later run completes
\* without error and changes nothing a completed run would not have changed.
C23_GCInterruptible ==
  [][Collects =>
       /\ Integral(State) => Integral(State')
       /\ collect_garbage(State').exc = "none"
       /\ collect_garbage(State').s = State']_vars

\* a run of the collector has deleted the inode of an unlinked file and
\* stopped with an error; the store is intact and a second run would stop
\* with the same error
C23_RunAgain ==
  /\ pc = Idle /\ ret.gc /\ ret.status = "EIO"
  /\ gc_enabled /\ ~ read_only
  /\ 2 \notin DOMAIN inodes /\ 3 \in DOMAIN inodes
  /\ Integral(State)
  /\ collect_garbage(State).exc = "AttributeError"

\* every key of the Block Store is the digest of a hashes row in use
NoOrphanBlock ==
  \A d \in DOMAIN blocks : \E h \in hashes, x \in index : h.hash = d /\ x.hash_id = h.id

\* C24: eventual collection.  With collection enabled and the store writable,
\* every inode with nlinks = 0, its index rows and every unreferenced block
\* are deleted at the latest by the collection of the unmount: when fsdestroy
\* has run, none of them is left.
C24_CollectedAtUnmount ==
  [][(gc_enabled /\ ~ read_only /\ fsdestroy)
       => (NoDeadInode /\ NoOrphanIndex /\ NoOrphanHash /\ NoOrphanBlock)']_vars

\* a writable mount with collection enabled has been unmounted: the unlinked
\* file's inode and index rows are gone, its block and hashes row are not
C24_LeftAtUnmount ==
  /\ pc = Stopped /\ ret.gc
  /\ gc_enabled /\ ~ read_only
  /\ DOMAIN inodes = {1} /\ index = {}
  /\ hashes # {} /\ ~ NoOrphanBlock

\* C30: the compression method is fixed for the store's lifetime.  After
\* every mount the compress/decompress pair in effect is the one named by the
\* persisted compression_method, so the mount never operates with another
\* method (such as identity) and every stored block decompresses to the
\* bytes that were written.
C30_CompressionFixed ==
  pc # Stopped => compressor = options.compression_method

\* a store made with lzo is mounted by a process without the lzo binding:
\* the pair in effect is the identity, a warning is logged, and reading the
\* file gives the stored bytes of its block instead of the byte written
C30_Identity ==
  /\ pc = Idle
  /\ options.compression_method = "lzo" /\ compression_method = "lzo"
  /\ compressor = "none" /\ "compressor" \in warnings
  /\ buffers = <<>>
  /\ IsReg(<<"a">>) /\ inodes[InodeOf(<<"a">>)].size = 1
  /\ Cardinality(index) = 1
  /\ read_call(State, <<"a">>, MaxLen, 0).val = <<1, 0>>

\* C21: commit on success.  Every top-level mutating callback that returns
\* success, chown and truncate included, has committed all of its changes
\* when it returns: no transaction is left open.  So a later callback that
\* fails and rolls back undoes nothing of an earlier success: no failing
\* callback changes the owner an earlier chown gave to an inode.
C21_CommitOnSuccess ==
  /\ []((pc = Idle /\ ret.status = "ok") => ~ txn.open)
  /\ [][(pc' = Idle /\ ret'.status # "ok")
          => \A i \in DOMAIN inodes \cap DOMAIN inodes' :
               inodes'[i].uid = inodes[i].uid]_vars

\* chown has given the file another owner, a later truncate has failed in
\* its __gc_hook and rolled back, and the owner is still the one chown set
C21_OwnerKept ==
  /\ pc = Idle /\ ret.gc /\ ret.status = "ENOENT"
  /\ ~ txn.open
  /\ IsReg(<<"a">>) /\ inodes[InodeOf(<<"a">>)].uid = 1

\* what the database holds for a later process if this one dies in s
Committed(s) ==
  IF s.txn.open THEN s.txn.tables
  ELSE <<s.tree, s.inodes, s.links, s.hashes, s.index>>

\* rename(old_path, new_path) runs to its return without the collector
Renames(old_path, new_path) == rename(old_path, new_path, FALSE, {})

\* C22: nested transaction discipline.  The unlink(new), link(old, new) and
\* unlink(old) of a rename commit nothing of their own: after each of the
\* first two the committed tables are those from before the rename.  A
\* rename that returns success has committed all three, and a rename that
\* returns an error has rolled back, leaving every table as it was; so no
\* state with part of a rename committed is reachable.
C22_RenameAtomic ==
  [][\A o, n \in NamePaths :
       (o # n /\ Renames(o, n)) =>
         LET u == unlink_call(State, n)
             s1 == execute(State, u.s)
             l == link_call(s1, o, n)
             s2 == execute(State, l.s)
         IN  /\ Committed(s1) = Committed(State)
             /\ (u.exc \in {"none", "ENOENT"}) => Committed(s2) = Committed(State)
             /\ ret'.status # "ok" => UNCHANGED Tables
             /\ ~ txn'.open]_vars

\* a rename onto /a or /b has returned no-such-entry because its source did
\* not exist, and the file its target named is unlinked: no tree row is left
\* and the inode of the file has no link
C22_TargetLost ==
  /\ pc = Idle /\ ret.status = "ENOENT" /\ ~ ret.gc
  /\ ~ txn.open
  /\ tree = {[id |-> 1, parent_id |-> 0, name |-> "", inode |-> 1]}
  /\ DOMAIN inodes = {1, 2} /\ inodes[2].nlinks = 0 /\ inodes[2].mode = S_IFREG

\* a top-level callback of SpecCount succeeds in this step, or has counted
\* itself and enters the collector
Succeeds == pc = Idle /\ (pc' # Idle \/ ret'.status = "ok")

\* C25: the op counter.  Every successful top-level mutating callback
\* increments the op counter exactly once (a rename once, not once per
\* nested call), and the hook calls the collector only when the counter has
\* reached a multiple of 500.
C25_OpCounter ==
  [][/\ Succeeds => opcount' = opcount + 1
     /\ (pc = Idle /\ pc' # Idle) => opcount' % GcEvery = 0]_vars

\* the 500th counted call has entered the collector; the unlink that left
\* the dead inode it is about to delete was a call of its own, not counted
C25_Uncounted ==
  /\ pc # Idle /\ opcount = GcEvery
  /\ \E i \in DOMAIN inodes : inodes[i].nlinks = 0 /\ inodes[i].mode = S_IFREG

\* how long ago node q was last used once the walk for path has stamped
Age(q, path) ==
  IF IsPrefix(q, path) THEN 0 ELSE cache_clock.now - cache_clock.last_used[q]

\* the request of this call is the CacheGcEvery-th and cache_timeout has
\* passed since the last sweep
SweepDue ==
  /\ cache_clock.requests + 1 >= CacheGcEvery
  /\ cache_clock.now - cache_clock.last_run >= CacheTimeout

\* C29: path-cache eviction.  Every cached node was last used no earlier
\* than any node below it.  A lookup removes nodes only in a sweep, which
\* runs only when the request counter has reached 2500 and cache_timeout has
\* passed since the last sweep; the sweep removes every node last used more
\* than cache_timeout ago together with its subtree, and removes no node
\* used within cache_timeout nor any node above one.
C29_CacheEviction ==
  /\ [](/\ DOMAIN cache_clock.last_used = DOMAIN cached_nodes
        /\ \A q, d \in DOMAIN cached_nodes :
             IsPrefix(q, d) => cache_clock.last_used[q] >= cache_clock.last_used[d])
  /\ [][\A p \in CachePaths : getattr_timed(p) =>
          /\ DOMAIN cached_nodes \ DOMAIN cached_nodes' # {} => SweepDue
          /\ SweepDue =>
               \A q, d \in DOMAIN cached_nodes :
                 (Age(q, p) > CacheTimeout /\ IsPrefix(q, d)) => d \notin DOMAIN cached_nodes'
          /\ \A q, k \in DOMAIN cached_nodes :
               (Age(q, p) <= CacheTimeout /\ IsPrefix(k, q))
                 => k \in DOMAIN cached_nodes' /\ cached_nodes'[k] = cached_nodes[k]]_vars

\* a sweep has just run, 90 seconds after the last one: it has kept /b, last
\* used 60 seconds before, and /a, which the call itself used, and nothing
\* below /a is cached
C29_Swept ==
  /\ cache_clock.requests = 0 /\ cache_clock.last_run = cache_clock.now
  /\ cache_clock.now = 90
  /\ DOMAIN cached_nodes = {<<"a">>, <<"b">>}
  /\ cache_clock.last_used[<<"a">>] = 90
  /\ cache_clock.last_used[<<"b">>] = 30

----------------------------------------------------------------------------
\* C31: verify_writes.  When release(path) flushes a dirty Buffer with
\* verify_writes enabled and the flush stores a block under a new digest,
\* and every block so stored decompresses to bytes of that digest, the
\* flush succeeds as it does without verify_writes: release returns
\* success, the size is the length of the Buffer and the file reads back
\* as the Buffer's bytes.
C31_VerifyWrites ==
  [][\A p \in DataPaths :
       (/\ Flushes(p)
        /\ verify_writes
        /\ hashes' # hashes
        /\ \A d \in DOMAIN blocks' \ DOMAIN blocks : hash(decompress(blocks'[d])) = d)
         => /\ ret'.status = "ok"
            /\ RoundTrip(State', p, buffers[p].data)]_vars

\* a verified flush has stored a block that reads back intact, and failed
C31_VerifyRaised ==
  /\ verify_writes
  /\ ret.status = "EIO"
  /\ hashes # {}
  /\ \A h \in hashes : h.hash \in DOMAIN blocks /\ hash(decompress(blocks[h.hash])) = h.hash
  /\ \E p \in DataPaths : p \in DOMAIN buffers /\ buffers[p].dirty

----------------------------------------------------------------------------
\* the child tree rows of the directory inode that are directories
ChildDirs(inode) ==
  {c \in tree : /\ \E r \in tree : r.inode = inode /\ c.parent_id = r.id
                /\ c.inode \in DOMAIN inodes
                /\ inodes[c.inode].mode = S_IFDIR}

\* C32: directory link counts follow the directory structure.  Between
\* callbacks every directory inode that has a tree row has nlinks = 2 + the
\* number of its child tree rows that are directories, and no inode has
\* nlinks below 0.
C32_DirLinks ==
  pc = Idle =>
    /\ \A i \in DOMAIN inodes :
         (inodes[i].mode = S_IFDIR /\ TreeRefs(i) > 0)
           => inodes[i].nlinks = 2 + Cardinality(ChildDirs(i))
    /\ \A i \in DOMAIN inodes : inodes[i].nlinks >= 0

\* a rename has moved a directory below another one: the new parent still
\* counts 2 and the root still counts both
C32_MovedUncounted ==
  /\ pc = Idle /\ ret.status = "ok"
  /\ \E i \in DOMAIN inodes :
       /\ inodes[i].mode = S_IFDIR /\ TreeRefs(i) = 1 /\ i # 1
       /\ inodes[i].nlinks = 2
       /\ Cardinality(ChildDirs(i)) = 1
  /\ inodes[1].nlinks = 4 /\ Cardinality(ChildDirs(1)) = 1

----------------------------------------------------------------------------
\* every tree row but the root hangs below a tree row
Attached(tr) == \A r \in tr : r.id # 1 => \E q \in tr : q.id = r.parent_id

\* C33: no orphaned subtrees.  In every state every tree row but the root has
\* the id of a tree row as its parent_id; and when rename(old, new) of a
\* directory returns success, every entry that resolved at old/x before
\* resolves at new/x to the same inode afterwards.
C33_NoOrphans ==
  /\ [] Attached(tree)
  /\ [][\A old_path, new_path \in TreePaths :
          (/\ IsDir(old_path)
           /\ \E d \in BOOLEAN : \E e \in Expirable({old_path, new_path}) :
                rename(old_path, new_path, d, e)
           /\ ret'.status = "ok")
            => \A x \in {<<"a">>, <<"b">>} :
                 TreeRow(tree, old_path \o x) # None
                   => /\ TreeRow(tree', new_path \o x) # None
                      /\ TreeRow(tree', new_path \o x).inode
                           = TreeRow(tree, old_path \o x).inode]_vars

\* rename(/a, /b) has returned success and the row that was /a/a hangs
\* below a tree id that no longer exists
C33_ChildLeftBehind ==
  /\ pc = Idle /\ ret.status = "ok"
  /\ TreeRow(tree, <<"a">>) = None
  /\ IsDir(<<"b">>)
  /\ TreeRow(tree, <<"b", "a">>) = None
  /\ \E r \in tree : r.name = "a" /\ r.id # 1 /\ \A q \in tree : q.id # r.parent_id

----------------------------------------------------------------------------
\* C34: a Buffer belongs to the file its path names now.  Between callbacks
\* every path that has a Buffer in the pool resolves; and when create(path)
\* has made a new file at a path that named nothing, read(path) returns no
\* bytes.
C34_BufferOwner ==
  /\ [](pc = Idle => \A p \in DOMAIN buffers : Exists(p))
  /\ [][\A p \in DataPaths :
          (/\ ~ Exists(p)
           /\ \E d \in BOOLEAN : \E e \in Expirable({p}) : create(p, S_IFREG, TRUE, d, e)
           /\ ret'.status = "ok")
            => read_call(State', p, MaxLen, 0).val = <<>>]_vars

\* /a names a new, empty file and read(/a) returns the bytes written to the
\* file that was unlinked
C34_ForeignBytes ==
  /\ pc = Idle
  /\ IsReg(<<"a">>)
  /\ inodes[InodeOf(<<"a">>)].size = 0
  /\ index_rows(State, InodeOf(<<"a">>)) = {}
  /\ \E i \in DOMAIN inodes : inodes[i].mode = S_IFREG /\ inodes[i].nlinks = 0
  /\ read_call(State, <<"a">>, MaxLen, 0).val # <<>>

----------------------------------------------------------------------------
\* what read(path, MaxLen, 0) returns in the state s
WholeFile(s, path) == read_call(s, path, MaxLen, 0)

\* C35: size matches content.  Between callbacks, for every regular file
\* that has no Buffer in the pool, a read of the whole file succeeds and
\* returns exactly getattr(path).size bytes; and after truncate(path, n) with
\* n not larger than the size, the read returns the first n bytes of what it
\* returned before.
C35_SizeMatches ==
  /\ [](pc = Idle =>
          \A p \in DataPaths :
            (IsReg(p) /\ p \notin DOMAIN buffers)
              => /\ WholeFile(State, p).status = "ok"
                 /\ Len(WholeFile(State, p).val) = getattr_call(State, p).val.size)
  /\ [][\A p \in DataPaths, n \in 0..MaxLen :
          (/\ IsReg(p) /\ p \notin DOMAIN buffers
           /\ n <= inodes[InodeOf(p)].size
           /\ \E d \in BOOLEAN : \E e \in Expirable({p}) : truncate(p, n, d, e)
           /\ ret'.status = "ok")
            => WholeFile(State', p).val = SubSeq(WholeFile(State, p).val, 1, n)]_vars

\* truncate(/a, 0) has returned success, the size is 0 and a read of the
\* file, which has no Buffer, returns a byte
C35_BytesBeyondSize ==
  /\ pc = Idle /\ ret.status = "ok" /\ buffers = <<>>
  /\ IsReg(<<"a">>)
  /\ getattr_call(State, <<"a">>).val.size = 0
  /\ Len(WholeFile(State, <<"a">>).val) = 1

----------------------------------------------------------------------------
\* C36: readlink returns the link's own target.  When symlink(target, path)
\* returns success, readlink(path) returns target and nothing else; and as
\* long as the symlink keeps its tree row, through creations and removals of
\* other entries and through garbage collections, what readlink(path) may
\* return does not change.
C36_ReadlinkOwnTarget ==
  /\ [][\A p \in LinkPaths, g \in LinkTargets :
          (/\ \E d \in BOOLEAN : symlink(g, p, d, {})
           /\ ret'.status = "ok")
            => /\ readlink_call(State', p).status = "ok"
               /\ readlink_call(State', p).vals = {g}]_vars
  /\ [][\A p \in LinkPaths :
          (IsLnk(p) /\ TreeRow(tree', p) = TreeRow(tree, p))
            => readlink_call(State', p).vals = readlink_call(State, p).vals]_vars

\* a symlink has been given the inode number of a collected symlink, and
\* readlink may return the target of either
C36_TwoTargets ==
  /\ pc = Idle /\ ret.status = "ok"
  /\ \E p \in LinkPaths :
       /\ IsLnk(p)
       /\ inodes[InodeOf(p)].nlinks = 1
       /\ readlink_call(State, p).vals = LinkTargets

====
